---------------------------- MODULE Spec2Model ----------------------------
(***************************************************************************)
(* A model of prometheus-speedtest: the Prometheus identifier and label    *)
(* primitives (src/prometheus/strings.rs), the Go-float serializer         *)
(* (src/prometheus/go_floats.rs) and the exposition builder                *)
(* (src/prometheus.rs).                                                    *)
(*                                                                         *)
(* Text is modelled as a sequence of one-character strings, so that        *)
(* formatting, escaping and truncation are computed character by           *)
(* character, as the code does.                                            *)
(***************************************************************************)
EXTENDS Integers, Sequences, FiniteSets, TLC

VARIABLES
    \* ---- strings.rs: EscapePrometheus iterator and PName::new
    esc_input,        \* the &str handed to escape_prometheus_str
    esc_inner,        \* EscapePrometheus.inner: the characters not yet read
    esc_char,         \* EscapePrometheus.esc_char: Option<char>, <<>> is None
    esc_out,          \* what Display for EscapePrometheus has written so far
    esc_done,         \* next() has returned None
    pn_input,         \* the &str handed to PName::new
    pn_result,        \* "none" before the call, then "Ok" or "Err"
    pn_name,          \* the text of the PName returned on Ok
    \* ---- go_floats.rs: one run of f32_to_go_string / f64_to_go_string
    fl_kind,          \* "f32" or "f64"
    fl_float,         \* the input's bit pattern (the positions holding a 1)
    fl_fraction,      \* the local fraction register ($Bits wide)
    fl_out,           \* the characters written to out
    fl_pc,            \* position in the function
    \* ---- prometheus.rs: one ExpositionBuilder and the calls in flight on it
    name,             \* ExpositionBuilder.name: [buf, waypoints]
    labels,           \* ExpositionBuilder.labels: [buf, waypoints]
    buffer,           \* ExpositionBuilder.buffer (scratch)
    entries,          \* ExpositionBuilder.entries: name -> [help, lines]
    frames,           \* the closures in flight, innermost last
    panicking,        \* a body has panicked and the stack is unwinding
    ops,              \* number of calls made so far (bounds the run)
    \* ---- history of the builder run (what was asked of it, in call order)
    log,              \* one record per add_line / add_line_labeled call
    order,            \* the first add_metric call of each metric name, in order
    label_stack,      \* the (name, value) pairs pushed and not yet popped
    \* ---- config.rs / main.rs: the configuration the process serves with
    boot_pc,          \* "start", then "serving" or "panicked" (load_config)
    config,           \* Config: [servers, samples, ping_quantiles, speedtest_quantiles]
    \* ---- ping.rs: one run of perform_ping
    pp_pc,            \* position of perform_ping
    resolver_owner,   \* the target task holding the resolver Mutex, 0: free
    tasks,            \* the target tasks of the JoinSet, by position in servers
    pp_results,       \* the local results: Vec<PingResult>
    \* ---- speedtest/http.rs: one measure_download or measure_upload
    provider,         \* HttpSpeedtestProvider: durations (ms) and upload_chunk_size
    sp_kind,          \* "download" or "upload"
    sp_pc,            \* position of the measurement
    now,              \* the monotonic clock, in milliseconds
    locals,           \* MeasurementLocals
    sample_bytes,     \* collect_download_data's local sample_bytes
    sp_data,          \* the SpeedtestData returned, <<>> before the return
    gets,             \* the times at which a GET was issued
    posts,            \* the POSTs issued: when, and how timeout_at ended them
    chunks,           \* the number of chunks received so far
    \* ---- speedtest.rs: one call of SpeedtestSummary::digest_data
    dg_build,         \* "debug" or "release" (overflow checks on or off)
    dg_data,          \* SpeedtestData: [samples, total]
    dg_quantiles,     \* the quantiles argument
    dg_pc,            \* "call", then "done" or "panicked"
    dg_summary,       \* the SpeedtestSummary returned, <<>> before the return
    \* ---- ping.rs: the spawn loop of one sample_pings
    sq_samples,       \* the samples argument (a usize)
    sq_seq,           \* the local seq
    sq_spawned,       \* the last probe spawned: [index, wire], <<>> before
    sq_pc,            \* "spawn", then "join"
    \* ---- main.rs: one request to /ping or /speedtest
    request,          \* [path, accept]
    h_pc,             \* position of the handler
    response_type,    \* the negotiated Mime, <<>> before
    download_data,    \* the download's SpeedtestData, <<>> before
    upload_data,      \* the upload's SpeedtestData, <<>> before
    started,          \* the measurements called and what they returned, in order
    response          \* the Response returned, <<>> before

strVars == <<esc_input, esc_inner, esc_char, esc_out, esc_done,
             pn_input, pn_result, pn_name>>
floatVars == <<fl_kind, fl_float, fl_fraction, fl_out, fl_pc>>
expoVars == <<name, labels, buffer, entries, frames, panicking, ops,
              log, order, label_stack>>
libVars == <<strVars, floatVars, expoVars>>
pingVars == <<boot_pc, config, pp_pc, resolver_owner, tasks, pp_results>>
speedVars == <<provider, sp_kind, sp_pc, now, locals, sample_bytes, sp_data,
               gets, posts, chunks>>
digestVars == <<dg_build, dg_data, dg_quantiles, dg_pc, dg_summary>>
seqVars == <<sq_samples, sq_seq, sq_spawned, sq_pc>>
httpVars == <<request, h_pc, response_type, download_data, upload_data,
              started, response>>
appVars == <<digestVars, seqVars, httpVars>>
vars == <<libVars, pingVars, speedVars, appVars>>

----------------------------------------------------------------------------
(* Bounds of the model.                                                    *)

\* longest input string of escape_prometheus_str / PName::new
MaxStrLen == 3
\* deepest nesting of with_label / with_name / add_metric closures
MaxDepth == 3
\* most calls made on one builder in a run
MaxOps == 4
\* config.ping.samples of the configurations that probe
MaxSamples == 2
\* most chunks a server delivers during one download measurement
MaxChunks == 3
\* most requests (GET or POST) issued during one measurement
MaxRequests == 3
\* how many iterations of a spawn loop before the 65536th are entered directly
SeqWindow == 40

----------------------------------------------------------------------------
(* Characters and text.                                                    *)

\* The byte value of the characters the model uses (str compares bytewise).
Ascii(c) ==
    CASE c = "\n" -> 10
      [] c = " "  -> 32
      [] c = "\"" -> 34
      [] c = "#"  -> 35
      [] c = "+"  -> 43
      [] c = ","  -> 44
      [] c = "-"  -> 45
      [] c = "."  -> 46
      [] c = "0"  -> 48
      [] c = "1"  -> 49
      [] c = "2"  -> 50
      [] c = "3"  -> 51
      [] c = "4"  -> 52
      [] c = "5"  -> 53
      [] c = "6"  -> 54
      [] c = "7"  -> 55
      [] c = "8"  -> 56
      [] c = "9"  -> 57
      [] c = "="  -> 61
      [] c = "A"  -> 65
      [] c = "\\" -> 92
      [] c = "_"  -> 95
      [] c = "^"  -> 94
      [] c = "a"  -> 97
      [] c = "b"  -> 98
      [] c = "g"  -> 103
      [] c = "h"  -> 104
      [] c = "m"  -> 109
      [] c = "n"  -> 110
      [] c = "x"  -> 120
      [] c = "z"  -> 122
      [] c = "{"  -> 123
      [] c = "}"  -> 125

\* All strings over alphabet A of length at most n.
RECURSIVE StringsUpTo(_, _)
StringsUpTo(A, n) ==
    IF n = 0 THEN {<<>>}
    ELSE LET shorter == StringsUpTo(A, n - 1)
         IN  shorter \cup {Append(s, c) : s \in shorter, c \in A}

\* Concatenation of a sequence of texts.
RECURSIVE Concat(_)
Concat(ss) == IF ss = <<>> THEN <<>> ELSE Head(ss) \o Concat(Tail(ss))

\* String::truncate(new_len): no effect when new_len exceeds the length.
Truncate(s, new_len) == IF new_len >= Len(s) THEN s ELSE SubSeq(s, 1, new_len)

\* Display of an unsigned integer: its decimal digits.
DigitChar(d) ==
    CASE d = 0 -> "0" [] d = 1 -> "1" [] d = 2 -> "2" [] d = 3 -> "3"
      [] d = 4 -> "4" [] d = 5 -> "5" [] d = 6 -> "6" [] d = 7 -> "7"
      [] d = 8 -> "8" [] d = 9 -> "9"

RECURSIVE DecUnsigned(_)
DecUnsigned(n) ==
    IF n < 10 THEN <<DigitChar(n)>>
    ELSE Append(DecUnsigned(n \div 10), DigitChar(n % 10))

\* Display of a signed integer: "-" before the digits of a negative one.
DecSigned(n) == IF n < 0 THEN <<"-">> \o DecUnsigned(-n) ELSE DecUnsigned(n)

----------------------------------------------------------------------------
(* src/prometheus/strings.rs                                               *)

\* EscapePrometheus::next that leaves the backslash alone.
EscapeNextNoBackslash(it) ==
    IF it.esc_char # <<>>
    THEN [inner |-> it.inner, esc_char |-> <<>>, item |-> it.esc_char]
    ELSE IF it.inner = <<>>
    THEN [inner |-> <<>>, esc_char |-> <<>>, item |-> <<>>]
    ELSE LET ch == Head(it.inner)
             esc == CASE ch = "\"" -> <<"\"">>
                      [] ch = "\n" -> <<"n">>
                      [] OTHER     -> <<>>
         IN  [inner |-> Tail(it.inner), esc_char |-> esc,
              item |-> IF esc # <<>> THEN <<"\\">> ELSE <<ch>>]

\* EscapePrometheus::next: it is [inner, esc_char]; the result carries the
\* iterator's new fields and the returned Option<char> as item (<<>>: None).
EscapeNext(it) ==
    IF it.esc_char # <<>>
    THEN [inner |-> it.inner, esc_char |-> <<>>, item |-> it.esc_char]
    ELSE IF it.inner = <<>>
    THEN [inner |-> <<>>, esc_char |-> <<>>, item |-> <<>>]
    ELSE LET ch == Head(it.inner)
             esc == CASE ch = "\\" -> <<"\\">>
                      [] ch = "\"" -> <<"\"">>
                      [] ch = "\n" -> <<"n">>
                      [] OTHER     -> <<>>
         IN  [inner |-> Tail(it.inner), esc_char |-> esc,
              item |-> IF esc # <<>> THEN <<"\\">> ELSE <<ch>>]

\* escape_prometheus_str: a fresh iterator over the string.
escape_prometheus_str(str) == [inner |-> str, esc_char |-> <<>>]

\* Display for EscapePrometheus: every character the iterator yields.
RECURSIVE EscapeDisplay(_)
EscapeDisplay(it) ==
    LET r == EscapeNext(it)
    IN  IF r.item = <<>> THEN <<>>
        ELSE r.item \o EscapeDisplay([inner |-> r.inner, esc_char |-> r.esc_char])

\* matches!(ch, 'a'..='z' | '_')
IsNameChar(ch) == (Ascii(ch) >= 97 /\ Ascii(ch) <= 122) \/ ch = "_"

\* is_valid_prometheus_name that looks at the first character only.
is_valid_prometheus_name_first(s) == s # <<>> => IsNameChar(s[1])

\* is_valid_prometheus_name: chars().all(..), which is true of the empty string.
is_valid_prometheus_name(s) == \A i \in 1..Len(s) : IsNameChar(s[i])

\* PName::new
PName_new(s) ==
    IF is_valid_prometheus_name(s)
    THEN [result |-> "Ok", name |-> s]
    ELSE [result |-> "Err", name |-> <<>>]

\* PNameBuilder::new
PNameBuilder_new == [buf |-> <<>>, waypoints |-> <<>>]

\* PNameBuilder::push
PNameBuilder_push(nb, n) ==
    [buf |-> nb.buf \o n, waypoints |-> Append(nb.waypoints, Len(nb.buf))]

\* PNameBuilder::pop that forgets the waypoint but keeps the text.
PNameBuilder_pop_keep(nb) ==
    IF nb.waypoints # <<>>
    THEN [buf |-> nb.buf,
          waypoints |-> SubSeq(nb.waypoints, 1, Len(nb.waypoints) - 1)]
    ELSE nb

\* PNameBuilder::pop
PNameBuilder_pop(nb) ==
    IF nb.waypoints # <<>>
    THEN [buf |-> Truncate(nb.buf, nb.waypoints[Len(nb.waypoints)]),
          waypoints |-> SubSeq(nb.waypoints, 1, Len(nb.waypoints) - 1)]
    ELSE nb

\* The inputs of the strings run: names, near-names and characters to escape.
StrAlphabet == {"a", "z", "_", "A", "^", "{", "\\", "\"", "\n", "n"}
StrInputs == StringsUpTo(StrAlphabet, MaxStrLen)

StrIdle ==
    /\ esc_input = <<>> /\ esc_inner = <<>> /\ esc_char = <<>>
    /\ esc_out = <<>> /\ esc_done = TRUE
    /\ pn_input = <<>> /\ pn_result = "none" /\ pn_name = <<>>

\* One iteration of for ch in self.clone() { f.write_char(ch)?; }.
EscapeStep ==
    /\ ~esc_done
    /\ LET r == EscapeNext([inner |-> esc_inner, esc_char |-> esc_char])
       IN  /\ esc_inner' = r.inner
           /\ esc_char' = r.esc_char
           /\ esc_out' = esc_out \o r.item
           /\ esc_done' = (r.item = <<>>)
    /\ UNCHANGED <<esc_input, pn_input, pn_result, pn_name>>

\* A call of PName::new on the input.
PNameNew ==
    /\ pn_result = "none"
    /\ LET r == PName_new(pn_input)
       IN  /\ pn_result' = r.result
           /\ pn_name' = r.name
    /\ UNCHANGED <<esc_input, esc_inner, esc_char, esc_out, esc_done, pn_input>>

----------------------------------------------------------------------------
(* src/prometheus/go_floats.rs                                             *)
(* A float is its bit pattern, and the $Bits register of the code is a     *)
(* pattern of the same width: the set of the positions that hold a 1,      *)
(* position 1 being the most significant bit (the sign) and position BITS  *)
(* the least significant. A left shift drops the bits that leave the       *)
(* register.                                                               *)

RECURSIVE Pow2(_)
Pow2(n) == IF n = 0 THEN 1 ELSE 2 * Pow2(n - 1)

\* The value of the bits at positions from..to of a pattern.
RECURSIVE FieldValue(_, _, _)
FieldValue(bits, from, to) ==
    IF from > to THEN 0
    ELSE 2 * FieldValue(bits, from, to - 1) + (IF to \in bits THEN 1 ELSE 0)

\* The pattern holding the value n in the positions from..to.
FieldOf(n, from, to) == {i \in from..to : (n \div Pow2(to - i)) % 2 = 1}

\* <$Bits>::BITS
BITS(kind) == IF kind = "f32" THEN 32 ELSE 64
\* <$Type>::MANTISSA_DIGITS
MANTISSA_DIGITS(kind) == IF kind = "f32" THEN 24 ELSE 53
FRAC_BITS(kind) == MANTISSA_DIGITS(kind) - 1
EXP_BITS(kind) == BITS(kind) - FRAC_BITS(kind) - 1
EXP_MASK(kind) == Pow2(EXP_BITS(kind)) - 1
\* (1 << (EXP_BITS - 1)) - 1
ExpBias(kind) == Pow2(EXP_BITS(kind) - 1) - 1

\* register << n
Shl(reg, n) == {i - n : i \in {k \in reg : k - n >= 1}}

\* bits & FRAC_MASK
FractionOf(kind, bits) == {i \in bits : i > BITS(kind) - FRAC_BITS(kind)}

\* (bits >> FRAC_BITS) & EXP_MASK
RawExponent(kind, bits) == FieldValue(bits, 2, 1 + EXP_BITS(kind))

is_nan(kind, bits) ==
    RawExponent(kind, bits) = EXP_MASK(kind) /\ FractionOf(kind, bits) # {}
is_infinite(kind, bits) ==
    RawExponent(kind, bits) = EXP_MASK(kind) /\ FractionOf(kind, bits) = {}
is_sign_positive(bits) == 1 \notin bits
\* float == 0. (true of +0.0 and of -0.0)
is_zero(bits) == bits \ {1} = {}

\* ALPH
ALPH ==
    <<"0", "1", "2", "3", "4", "5", "6", "7",
      "8", "9", "a", "b", "c", "d", "e", "f">>

\* ALPH[((fraction >> (BITS - 4)) & 0xf) as usize]
TopNibbleChar(reg) == ALPH[FieldValue(reg, 1, 4) + 1]

\* The exponent written after "p" with a bias one too large.
PrintedExponentOffByOne(kind, bits) == RawExponent(kind, bits) - ExpBias(kind) - 1

\* exponent as i16 - ((1 << (EXP_BITS - 1)) - 1); no i16 overflow: the raw
\* exponent is at most 2047.
PrintedExponent(kind, bits) == RawExponent(kind, bits) - ExpBias(kind)

\* A bit pattern from its three fields (frac: the positions, counted from
\* the most significant fraction bit, that hold a 1).
FloatFromFields(kind, sign, exponent, frac) ==
    (IF sign = 1 THEN {1} ELSE {})
        \cup FieldOf(exponent, 2, 1 + EXP_BITS(kind))
        \cup {1 + EXP_BITS(kind) + i : i \in frac}

\* The inputs of the serializer run: both signs, the smallest and largest
\* exponents (subnormal, normal, infinite/NaN) and fractions with bits at
\* either end of the mantissa.
FloatKinds == {"f32", "f64"}
ExponentInputs(kind) ==
    {0, 1, ExpBias(kind) - 3, ExpBias(kind), EXP_MASK(kind) - 1, EXP_MASK(kind)}
FracInputs(kind) ==
    LET n == FRAC_BITS(kind)
    IN  {{}, {1}, {2}, {n}, {n - 1}, {1, n}, 1..n, {4, 5, 9}}
FloatInputs(kind) ==
    {FloatFromFields(kind, s, e, f) :
        s \in {0, 1}, e \in ExponentInputs(kind), f \in FracInputs(kind)}

FloatIdle ==
    /\ fl_kind = "f32" /\ fl_float = {} /\ fl_fraction = {}
    /\ fl_out = <<>> /\ fl_pc = "idle"

\* if float.is_nan() { return out.write_str("NaN"); }
FloatNaN ==
    /\ fl_pc = "start"
    /\ is_nan(fl_kind, fl_float)
    /\ fl_out' = <<"N", "a", "N">>
    /\ fl_pc' = "done"
    /\ UNCHANGED <<fl_kind, fl_float, fl_fraction>>

\* if float.is_infinite() { return out.write_str("+Inf" / "-Inf"); }
FloatInf ==
    /\ fl_pc = "start"
    /\ ~is_nan(fl_kind, fl_float)
    /\ is_infinite(fl_kind, fl_float)
    /\ fl_out' = IF is_sign_positive(fl_float)
                 THEN <<"+", "I", "n", "f">> ELSE <<"-", "I", "n", "f">>
    /\ fl_pc' = "done"
    /\ UNCHANGED <<fl_kind, fl_float, fl_fraction>>

\* if float == 0. { return out.write_char('0'); }
FloatZero ==
    /\ fl_pc = "start"
    /\ ~is_nan(fl_kind, fl_float)
    /\ ~is_infinite(fl_kind, fl_float)
    /\ is_zero(fl_float)
    /\ fl_out' = <<"0">>
    /\ fl_pc' = "done"
    /\ UNCHANGED <<fl_kind, fl_float, fl_fraction>>

\* From let bits = float.to_bits() to fraction <<= BITS - FRAC_BITS:
\* write "{sign}0x{leading}." and left-align the fraction.
FloatHeader ==
    /\ fl_pc = "start"
    /\ ~is_nan(fl_kind, fl_float)
    /\ ~is_infinite(fl_kind, fl_float)
    /\ ~is_zero(fl_float)
    /\ LET sign == IF is_sign_positive(fl_float) THEN "+" ELSE "-"
           leading == IF RawExponent(fl_kind, fl_float) = 0 THEN "0" ELSE "1"
       IN  fl_out' = <<sign, "0", "x", leading, ".">>
    /\ fl_fraction' = Shl(FractionOf(fl_kind, fl_float),
                          BITS(fl_kind) - FRAC_BITS(fl_kind))
    /\ fl_pc' = "loop"
    /\ UNCHANGED <<fl_kind, fl_float>>

\* One iteration of while fraction != 0 { write the top nibble; fraction <<= 4 }
FloatDigit ==
    /\ fl_pc = "loop"
    /\ fl_fraction # {}
    /\ fl_out' = Append(fl_out, TopNibbleChar(fl_fraction))
    /\ fl_fraction' = Shl(fl_fraction, 4)
    /\ UNCHANGED <<fl_kind, fl_float, fl_pc>>

\* write!(out, "p{exponent}") once the loop has ended
FloatExponent ==
    /\ fl_pc = "loop"
    /\ fl_fraction = {}
    /\ fl_out' = fl_out \o <<"p">> \o DecSigned(PrintedExponent(fl_kind, fl_float))
    /\ fl_pc' = "done"
    /\ UNCHANGED <<fl_kind, fl_float, fl_fraction>>

----------------------------------------------------------------------------
(* src/prometheus.rs: LabelBuilder                                         *)

\* SerializePrometheusLabelValue: a str is escaped, a number is written by
\* its SerializeGoFloat impl (decimal for the integer types).
serialize_prometheus_label_value(value) ==
    IF value.kind = "str"
    THEN EscapeDisplay(escape_prometheus_str(value.s))
    ELSE DecUnsigned(value.n)

\* write_label that opens a brace before every label.
write_label_always_brace(n, value, has_labels) ==
    <<"{">> \o n \o <<"=", "\"">>
        \o serialize_prometheus_label_value(value) \o <<"\"">>

\* write_label: the text appended to the label buffer
write_label(n, value, has_labels) ==
    (IF has_labels THEN <<",", " ">> ELSE <<"{">>)
        \o n \o <<"=", "\"">>
        \o serialize_prometheus_label_value(value) \o <<"\"">>

\* LabelBuilder::new
LabelBuilder_new == [buf |-> <<>>, waypoints |-> <<>>]

\* LabelBuilder::push
LabelBuilder_push(lb, n, value) ==
    [buf |-> lb.buf \o write_label(n, value, lb.buf # <<>>),
     waypoints |-> Append(lb.waypoints, Len(lb.buf))]

\* LabelBuilder::pop that forgets the waypoint but keeps the text.
LabelBuilder_pop_keep(lb) ==
    IF lb.waypoints # <<>>
    THEN [buf |-> lb.buf,
          waypoints |-> SubSeq(lb.waypoints, 1, Len(lb.waypoints) - 1)]
    ELSE lb

\* LabelBuilder::pop
LabelBuilder_pop(lb) ==
    IF lb.waypoints # <<>>
    THEN [buf |-> Truncate(lb.buf, lb.waypoints[Len(lb.waypoints)]),
          waypoints |-> SubSeq(lb.waypoints, 1, Len(lb.waypoints) - 1)]
    ELSE lb

\* Display for LabelBuilder
LabelBuilder_fmt(lb) == IF lb.buf = <<>> THEN <<>> ELSE lb.buf \o <<"}">>

----------------------------------------------------------------------------
(* src/prometheus.rs: ExpositionBuilder                                    *)

\* Display for MetricType
MetricType_fmt(t) ==
    CASE t = "Counter"   -> <<"c", "o", "u", "n", "t", "e", "r">>
      [] t = "Gauge"     -> <<"g", "a", "u", "g", "e">>
      [] t = "Histogram" -> <<"h", "i", "s", "t", "o", "g", "r", "a", "m">>
      [] t = "Summary"   -> <<"s", "u", "m", "m", "a", "r", "y">>
      [] t = "Untyped"   -> <<"u", "n", "t", "y", "p", "e", "d">>

\* The loop of add_metric over the help text: b'\n' becomes b' '.
ReplaceNewlines(text) ==
    [i \in 1..Len(text) |-> IF text[i] = "\n" THEN " " ELSE text[i]]

\* The header add_metric builds in the scratch buffer:
\* "# HELP {metric_name} " + help + "\n# TYPE {metric_name} {metric_type}\n"
MetricHeader(metric_name, metric_type, help_text) ==
    <<"#", " ", "H", "E", "L", "P", " ">> \o metric_name \o <<" ">>
        \o ReplaceNewlines(help_text)
        \o <<"\n", "#", " ", "T", "Y", "P", "E", " ">> \o metric_name \o <<" ">>
        \o MetricType_fmt(metric_type) \o <<"\n">>

\* add_line_entry that replaces the group's lines by the new line.
add_line_entry_overwrite(ents, group_name, line) ==
    [ents EXCEPT ![group_name].lines = <<line>>]

\* ExpositionMetricBuilder::add_line_entry: the line (the scratch buffer) is
\* pushed onto the lines of the builder's group.
add_line_entry(ents, group_name, line) ==
    [ents EXCEPT ![group_name].lines = Append(@, line)]

\* The value and the optional timestamp as add_line and add_line_labeled
\* write them after the label set: the value, then the Unix milliseconds
\* when at is Some (<<ms>>), then the newline pushed last.
ValueAndTimestamp(data, at) ==
    DecUnsigned(data)
        \o (IF at # <<>> THEN DecUnsigned(at[1]) ELSE <<>>)
        \o <<"\n">>

\* Ord for PName (derived: the order of str, bytewise lexicographic)
RECURSIVE PNameLess(_, _)
PNameLess(a, b) ==
    IF b = <<>> THEN FALSE
    ELSE IF a = <<>> THEN TRUE
    ELSE IF a[1] # b[1] THEN Ascii(a[1]) < Ascii(b[1])
    ELSE PNameLess(Tail(a), Tail(b))

\* A sort by key in descending order.
RECURSIVE SortedByKeyDescending(_)
SortedByKeyDescending(S) ==
    IF S = {} THEN <<>>
    ELSE LET m == CHOOSE x \in S : \A y \in S \ {x} : PNameLess(y, x)
         IN  <<m>> \o SortedByKeyDescending(S \ {m})

\* sorted.sort_unstable_by_key(|(k, _)| *k): the keys are distinct, so the
\* result does not depend on the map's iteration order.
RECURSIVE SortedByKey(_)
SortedByKey(S) ==
    IF S = {} THEN <<>>
    ELSE LET m == CHOOSE x \in S : \A y \in S \ {x} : PNameLess(x, y)
         IN  <<m>> \o SortedByKey(S \ {m})

\* A filter that keeps every group.
AllGroups(ents) == DOMAIN ents

\* .filter(|(_, group)| !group.lines.is_empty())
NonEmptyGroups(ents) == {k \in DOMAIN ents : ents[k].lines # <<>>}

\* What fmt writes for one group: its header, then the name before each line.
GroupText(ents, k) ==
    ents[k].help \o Concat([i \in 1..Len(ents[k].lines) |-> k \o ents[k].lines[i]])

\* Display for ExpositionBuilder
ExpositionBuilder_fmt(ents) ==
    LET sorted == SortedByKey(NonEmptyGroups(ents))
    IN  Concat([i \in 1..Len(sorted) |-> GroupText(ents, sorted[i])])

\* The inputs of the builder run.
PNames == {<<"a">>, <<"b">>}
LabelInputs ==
    {[name |-> <<"g">>, value |-> [kind |-> "str", s |-> <<"x">>]],
     [name |-> <<"h">>, value |-> [kind |-> "str", s |-> <<"\"">>]]}
MetricInputs ==
    {[metric_type |-> "Gauge", help_text |-> <<"h">>],
     [metric_type |-> "Counter", help_text |-> <<"m", "\n", "h">>]}
\* data and at (Option<SystemTime> as Unix milliseconds, <<>> is None)
LineInputs == {[data |-> 1, at |-> <<>>], [data |-> 2, at |-> <<7>>]}
\* label, value, data and at of add_line_labeled
LabeledLineInputs ==
    {[name |-> <<"g">>, value |-> [kind |-> "str", s |-> <<"x">>],
      data |-> 2, at |-> <<>>],
     [name |-> <<"h">>, value |-> [kind |-> "str", s |-> <<"\"">>],
      data |-> 1, at |-> <<7>>]}

ExpoIdle ==
    /\ name = PNameBuilder_new /\ labels = LabelBuilder_new
    /\ buffer = <<>> /\ entries = <<>> /\ frames = <<>>
    /\ panicking = FALSE /\ ops = MaxOps
    /\ log = <<>> /\ order = <<>> /\ label_stack = <<>>

\* ExpositionBuilder::new
ExpoNew ==
    /\ name = PNameBuilder_new /\ labels = LabelBuilder_new
    /\ buffer = <<>> /\ entries = <<>> /\ frames = <<>>
    /\ panicking = FALSE /\ ops = 0
    /\ log = <<>> /\ order = <<>> /\ label_stack = <<>>

\* The closure in flight is one handed an ExpositionMetricBuilder: it runs
\* inside add_metric, which cannot be nested (inner is private).
InMetric == \E i \in 1..Len(frames) : frames[i].kind = "add_metric"
\* ExpositionMetricBuilder.group_name
GroupName ==
    frames[CHOOSE i \in 1..Len(frames) : frames[i].kind = "add_metric"].group_name

\* The number of the add_metric call whose closure is running.
MetricCall ==
    frames[CHOOSE i \in 1..Len(frames) : frames[i].kind = "add_metric"].call

\* The name stack and label stack, as a frame records them at its call.
Stacks == [name |-> name, labels |-> labels]
Frame(kind) ==
    [kind |-> kind, call |-> ops + 1, pre |-> Stacks,
     saved_name |-> PNameBuilder_new, group_name |-> <<>>]
Top == frames[Len(frames)]
PopFrame == SubSeq(frames, 1, Len(frames) - 1)
CanCall == ~panicking /\ ops < MaxOps /\ Len(frames) < MaxDepth

\* ExpositionBuilder::with_label up to closure(self)
WithLabelCall ==
    /\ CanCall /\ ~InMetric
    /\ \E l \in LabelInputs :
          /\ labels' = LabelBuilder_push(labels, l.name, l.value)
          /\ label_stack' = Append(label_stack, l)
    /\ frames' = Append(frames, Frame("with_label"))
    /\ ops' = ops + 1
    /\ UNCHANGED <<name, buffer, entries, panicking, log, order>>

\* ExpositionBuilder::with_label after the closure has returned
WithLabelReturn ==
    /\ ~panicking /\ frames # <<>> /\ Top.kind = "with_label"
    /\ labels' = LabelBuilder_pop(labels)
    /\ label_stack' = SubSeq(label_stack, 1, Len(label_stack) - 1)
    /\ frames' = PopFrame
    /\ UNCHANGED <<name, buffer, entries, panicking, ops, log, order>>

\* ExpositionBuilder::with_name up to closure(self)
WithNameCall ==
    /\ CanCall /\ ~InMetric
    /\ \E n \in PNames : name' = PNameBuilder_push(name, n)
    /\ frames' = Append(frames, Frame("with_name"))
    /\ ops' = ops + 1
    /\ UNCHANGED <<labels, buffer, entries, panicking, log, order, label_stack>>

\* ExpositionBuilder::with_name after the closure has returned
WithNameReturn ==
    /\ ~panicking /\ frames # <<>> /\ Top.kind = "with_name"
    /\ name' = PNameBuilder_pop(name)
    /\ frames' = PopFrame
    /\ UNCHANGED <<labels, buffer, entries, panicking, ops, log, order, label_stack>>

\* ExpositionBuilder::add_metric up to the call of the closure: push the
\* suffix, find or create the group, take the name stack.
AddMetricCall ==
    /\ CanCall /\ ~InMetric
    /\ \E metric_suffix \in PNames, m \in MetricInputs :
          LET pushed == PNameBuilder_push(name, metric_suffix)
              key == pushed.buf
              header == MetricHeader(key, m.metric_type, m.help_text)
          IN  /\ IF key \in DOMAIN entries
                 THEN UNCHANGED <<buffer, entries, order>>
                 ELSE /\ buffer' = header
                      /\ entries' = [k \in DOMAIN entries \cup {key} |->
                                        IF k = key
                                        THEN [help |-> header, lines |-> <<>>]
                                        ELSE entries[k]]
                      /\ order' = Append(order, [name |-> key,
                                                 metric_type |-> m.metric_type,
                                                 help_text |-> m.help_text])
              /\ frames' = Append(frames,
                                  [Frame("add_metric") EXCEPT
                                      !.saved_name = pushed, !.group_name = key])
    /\ name' = PNameBuilder_new
    /\ ops' = ops + 1
    /\ UNCHANGED <<labels, panicking, log, label_stack>>

\* ExpositionBuilder::add_metric after the closure has returned:
\* self.name = saved_name; self.name.pop()
AddMetricReturn ==
    /\ ~panicking /\ frames # <<>> /\ Top.kind = "add_metric"
    /\ name' = PNameBuilder_pop(Top.saved_name)
    /\ frames' = PopFrame
    /\ UNCHANGED <<labels, buffer, entries, panicking, ops, log, order, label_stack>>

\* ExpositionMetricBuilder::with_label up to closure(self)
MetricWithLabelCall ==
    /\ CanCall /\ InMetric
    /\ \E l \in LabelInputs :
          /\ labels' = LabelBuilder_push(labels, l.name, l.value)
          /\ label_stack' = Append(label_stack, l)
    /\ frames' = Append(frames, Frame("metric_with_label"))
    /\ ops' = ops + 1
    /\ UNCHANGED <<name, buffer, entries, panicking, log, order>>

\* ExpositionMetricBuilder::with_label after the closure has returned
MetricWithLabelReturn ==
    /\ ~panicking /\ frames # <<>> /\ Top.kind = "metric_with_label"
    /\ labels' = LabelBuilder_pop(labels)
    /\ label_stack' = SubSeq(label_stack, 1, Len(label_stack) - 1)
    /\ frames' = PopFrame
    /\ UNCHANGED <<name, buffer, entries, panicking, ops, log, order>>

\* ExpositionMetricBuilder::with_name up to closure(self)
MetricWithNameCall ==
    /\ CanCall /\ InMetric
    /\ \E n \in PNames : name' = PNameBuilder_push(name, n)
    /\ frames' = Append(frames, Frame("metric_with_name"))
    /\ ops' = ops + 1
    /\ UNCHANGED <<labels, buffer, entries, panicking, log, order, label_stack>>

\* ExpositionMetricBuilder::with_name after the closure has returned
MetricWithNameReturn ==
    /\ ~panicking /\ frames # <<>> /\ Top.kind = "metric_with_name"
    /\ name' = PNameBuilder_pop(name)
    /\ frames' = PopFrame
    /\ UNCHANGED <<labels, buffer, entries, panicking, ops, log, order, label_stack>>

\* ExpositionMetricBuilder::add_line
AddLine ==
    /\ ~panicking /\ ops < MaxOps /\ InMetric
    /\ \E l \in LineInputs :
          LET line == name.buf \o LabelBuilder_fmt(labels) \o <<" ">>
                         \o ValueAndTimestamp(l.data, l.at)
          IN  /\ buffer' = line
              /\ entries' = add_line_entry(entries, GroupName, line)
              /\ log' = Append(log, [group |-> GroupName, call |-> MetricCall,
                                     suffix |-> name.buf,
                                     labels |-> label_stack,
                                     data |-> l.data, at |-> l.at, line |-> line])
    /\ ops' = ops + 1
    /\ UNCHANGED <<name, labels, frames, panicking, order, label_stack>>

\* ExpositionMetricBuilder::add_line_labeled: the label set is written inside
\* self.inner.with_label(label, value, ..), the value after it has popped.
AddLineLabeled ==
    /\ ~panicking /\ ops < MaxOps /\ InMetric
    /\ \E l \in LabeledLineInputs :
          LET lab == [name |-> l.name, value |-> l.value]
              pushed == LabelBuilder_push(labels, lab.name, lab.value)
              line == name.buf \o LabelBuilder_fmt(pushed) \o <<" ">>
                         \o ValueAndTimestamp(l.data, l.at)
          IN  /\ labels' = LabelBuilder_pop(pushed)
              /\ buffer' = line
              /\ entries' = add_line_entry(entries, GroupName, line)
              /\ log' = Append(log, [group |-> GroupName, call |-> MetricCall,
                                     suffix |-> name.buf,
                                     labels |-> Append(label_stack, lab),
                                     data |-> l.data, at |-> l.at, line |-> line])
    /\ ops' = ops + 1
    /\ UNCHANGED <<name, frames, panicking, order, label_stack>>

\* The body of the innermost closure panics.
Panic ==
    /\ ~panicking /\ frames # <<>>
    /\ panicking' = TRUE
    /\ UNCHANGED <<name, labels, buffer, entries, frames, ops, log, order,
                   label_stack>>

\* The panic leaves with_label, with_name or add_metric: the statements after
\* closure(self) do not run (there is no drop guard), the locals (saved_name)
\* are dropped.
Unwind ==
    /\ panicking /\ frames # <<>>
    /\ frames' = PopFrame
    /\ UNCHANGED <<name, labels, buffer, entries, panicking, ops, log, order,
                   label_stack>>

----------------------------------------------------------------------------
(* src/config.rs                                                           *)
(* A quantile is modelled by its hundredfold (0.5 is 50), an f32/f64 NaN   *)
(* by F_NAN, a millisecond RTT by a natural number.                        *)

\* f32::NAN / f64::NAN: the one value that is not a number
F_NAN == -1

\* a.partial_cmp(b).unwrap() panics when either side is a NaN
PartialCmpPanics(list) == \E i \in 1..Len(list) : list[i] = F_NAN

\* sort_unstable_by(|a, b| a.partial_cmp(b).unwrap()) of a list of numbers
\* (equal numbers are indistinguishable, so stability does not show).
RECURSIVE SortAscending(_)
SortAscending(list) ==
    IF list = <<>> THEN <<>>
    ELSE LET i == CHOOSE k \in 1..Len(list) : \A j \in 1..Len(list) : list[k] <= list[j]
             rest == [j \in 1..(Len(list) - 1) |-> IF j < i THEN list[j] ELSE list[j + 1]]
         IN  <<list[i]>> \o SortAscending(rest)

\* load_config, after the file was read: only speedtest.quantiles is sorted.
load_config(raw) ==
    [raw EXCEPT !.speedtest_quantiles = SortAscending(raw.speedtest_quantiles)]

\* The configurations a file can hold: two targets (a literal IP and a
\* domain, or the same domain twice), no probes or MaxSamples probes, and
\* quantile lists in either order.
IpTarget == [kind |-> "Ip", text |-> "192.0.2.1"]
DomainTarget == [kind |-> "Domain", text |-> "example.org"]
Configured(servers, samples, ping_quantiles, speedtest_quantiles) ==
    [servers |-> servers, samples |-> samples, ping_quantiles |-> ping_quantiles,
     speedtest_quantiles |-> speedtest_quantiles]
RawConfigs ==
    {Configured(<<IpTarget, DomainTarget>>, MaxSamples, <<0, 50>>, <<50, 0>>),
     Configured(<<DomainTarget, DomainTarget>>, MaxSamples, <<100, 50>>, <<0, 50>>),
     Configured(<<DomainTarget, IpTarget>>, 0, <<50, 0>>, <<50, 0>>),
     Configured(<<IpTarget, DomainTarget>>, MaxSamples, <<0, 50>>, <<F_NAN, 50>>)}

\* let config = load_config()?; the process then serves with it.
LoadConfig ==
    /\ boot_pc = "start"
    /\ ~PartialCmpPanics(config.speedtest_quantiles)
    /\ config' = load_config(config)
    /\ boot_pc' = "serving"
    /\ UNCHANGED <<pp_pc, resolver_owner, tasks, pp_results>>

\* load_config panics in partial_cmp(..).unwrap() on a NaN quantile.
LoadConfigPanic ==
    /\ boot_pc = "start"
    /\ PartialCmpPanics(config.speedtest_quantiles)
    /\ boot_pc' = "panicked"
    /\ UNCHANGED <<config, pp_pc, resolver_owner, tasks, pp_results>>

----------------------------------------------------------------------------
(* src/ping.rs: PingSummary::digest_data                                   *)

\* A quotient of two numbers, kept as the pair (the code divides floats).
Ratio(n, d) == [num |-> n, den |-> d]

RECURSIVE SumSeq(_)
SumSeq(list) == IF list = <<>> THEN 0 ELSE Head(list) + SumSeq(Tail(list))

\* The loop over errors: one bucket per kind, counting its occurrences.
ErrorBuckets(errors) ==
    [k \in {errors[i] : i \in 1..Len(errors)} |->
        Cardinality({i \in 1..Len(errors) : errors[i] = k})]

\* Vec::swap_remove(i): the last element takes the place of the removed one.
swap_remove(list, i) ==
    [j \in 1..(Len(list) - 1) |-> IF j = i THEN list[Len(list)] ELSE list[j]]

\* The removal loop stepping on after a swap_remove, so that the element
\* swapped into place is never looked at.
RECURSIVE RemoveLostSkipping(_, _, _)
RemoveLostSkipping(list, i, lost_packets) ==
    IF i > Len(list) THEN [samples |-> list, lost_packets |-> lost_packets]
    ELSE IF list[i] = F_NAN
    THEN RemoveLostSkipping(swap_remove(list, i), i + 1, lost_packets + 1)
    ELSE RemoveLostSkipping(list, i + 1, lost_packets)

\* The while loop that removes the NaN samples, from index i on (1-based):
\* the samples kept and the number of samples removed.
RECURSIVE RemoveLost(_, _, _)
RemoveLost(list, i, lost_packets) ==
    IF i > Len(list) THEN [samples |-> list, lost_packets |-> lost_packets]
    ELSE IF list[i] = F_NAN
    THEN RemoveLost(swap_remove(list, i), i, lost_packets + 1)
    ELSE RemoveLost(list, i + 1, lost_packets)

\* hist.value_at_quantile(q) over the recorded values (sorted ascending):
\* the value at rank ceil(q * n), at least the first (the bucket width of
\* the histogram is not modelled).
value_at_quantile(sorted, q) ==
    LET n == Len(sorted)
        rank == (q * n + 99) \div 100
    IN  sorted[IF rank < 1 THEN 1 ELSE IF rank > n THEN n ELSE rank]

\* PingSummary::digest_data
digest_data(samples, errors, quantiles) ==
    LET total_packets == Len(samples)
        kept == RemoveLost(samples, 1, 0)
        n == Len(kept.samples)
        sorted == SortAscending(kept.samples)
        hist == [i \in 1..n |-> sorted[i] * 16]
        sum == SumSeq(sorted)
        squares == SumSeq([i \in 1..n |-> sorted[i] * sorted[i]])
    IN  IF kept.samples = <<>>
        THEN [quantiles |-> <<>>, mean_ms |-> F_NAN, stddev |-> F_NAN,
              count |-> 0, loss_percent |-> Ratio(1, 1),
              errors |-> ErrorBuckets(errors)]
        ELSE [quantiles |->
                 [i \in 1..Len(quantiles) |->
                     <<quantiles[i], Ratio(value_at_quantile(hist, quantiles[i]), 16)>>],
              mean_ms |-> Ratio(sum, n),
              \* the square root of the mean squared deviation
              stddev |-> [sqrt_of |-> Ratio(n * squares - sum * sum, n * n)],
              count |-> n,
              loss_percent |-> Ratio(kept.lost_packets, total_packets),
              errors |-> ErrorBuckets(errors)]

----------------------------------------------------------------------------
(* src/ping.rs: perform_ping and sample_pings                              *)

\* u16::MAX + 1: PingSequence(seq as u16) keeps the low 16 bits of seq
U16_RANGE == 65536
PingSequence(seq) == seq % U16_RANGE

\* What PingTarget::resolve can return: an Ip resolves to itself; a lookup
\* gives an address, fails with the resolver's error, or finds no address.
ResolveOutcomes(target) ==
    IF target.kind = "Ip"
    THEN {[ok |-> TRUE, addr |-> target.text, message |-> ""]}
    ELSE {[ok |-> TRUE, addr |-> "198.51.100.7", message |-> ""],
          [ok |-> FALSE, addr |-> "", message |-> "no record found"],
          [ok |-> FALSE, addr |-> "", message |-> "no IP address found"]}

\* What pinger.ping can return: a reply after some milliseconds, or an error.
ProbeOutcomes ==
    {[ok |-> TRUE, rtt |-> 5, kind |-> ""],
     [ok |-> TRUE, rtt |-> 9, kind |-> ""],
     [ok |-> FALSE, rtt |-> 0, kind |-> "timeout"],
     [ok |-> FALSE, rtt |-> 0, kind |-> "Network error."]}

\* The outcome of a probe that has not been collected.
NotCollected == [ok |-> FALSE, rtt |-> 0, kind |-> "pending"]

\* A target task as set.spawn leaves it. resolve, sent and probe record what
\* happened to the task (the resolution outcome, the sequence numbers put
\* on the wire, the outcome of the probe spawned with each seq).
NewTask(target) ==
    [target |-> target, pc |-> "lock", addr |-> "", seq |-> 0, set |-> {},
     results |-> <<>>, errors |-> <<>>, result |-> <<>>, joined |-> FALSE,
     resolve |-> <<>>, sent |-> <<>>,
     probe |-> [s \in 0..(config.samples - 1) |-> NotCollected]]

PingIdle ==
    /\ boot_pc = "idle"
    /\ config = [servers |-> <<>>, samples |-> 0, ping_quantiles |-> <<>>,
                 speedtest_quantiles |-> <<>>]
    /\ pp_pc = "idle" /\ resolver_owner = 0 /\ tasks = <<>> /\ pp_results = <<>>

Targets == 1..Len(tasks)

\* perform_ping up to the end of the spawn loop: the resolver is built and
\* one task per configured target is put in the JoinSet.
PerformPing ==
    /\ boot_pc = "serving" /\ pp_pc = "idle"
    /\ tasks' = [i \in 1..Len(config.servers) |-> NewTask(config.servers[i])]
    /\ pp_pc' = "joining"
    /\ UNCHANGED <<boot_pc, config, resolver_owner, pp_results>>

\* Resolver::tokio_from_system_conf()? fails: perform_ping returns Err.
ResolverUnavailable ==
    /\ boot_pc = "serving" /\ pp_pc = "idle"
    /\ pp_pc' = "failed"
    /\ UNCHANGED <<boot_pc, config, resolver_owner, tasks, pp_results>>

\* A lock that is taken without waiting for its holder.
AcquireResolverWithoutWaiting(i) ==
    /\ tasks[i].pc = "lock"
    /\ resolver_owner' = i
    /\ tasks' = [tasks EXCEPT ![i].pc = "resolving"]
    /\ UNCHANGED <<boot_pc, config, pp_pc, pp_results>>

\* resolver.lock().await
AcquireResolver(i) ==
    /\ tasks[i].pc = "lock"
    /\ resolver_owner = 0
    /\ resolver_owner' = i
    /\ tasks' = [tasks EXCEPT ![i].pc = "resolving"]
    /\ UNCHANGED <<boot_pc, config, pp_pc, pp_results>>

\* An error result that replaces the resolver's message by a fixed text.
ErrorResultFixedText(target, message) ==
    [target |-> target, summary |-> <<>>, error |-> <<"resolution failed">>]

\* A PingResult with an error and no summary / with a summary and no error.
ErrorResult(target, message) ==
    [target |-> target, summary |-> <<>>, error |-> <<message>>]
SummaryResult(target, samples, errors) ==
    [target |-> target,
     summary |-> <<digest_data(samples, errors, config.ping_quantiles)>>,
     error |-> <<>>]

\* target.resolve(..) returns Err: the task returns the error result (the
\* lock guard is dropped with the task's locals).
ResolveErr(i) ==
    /\ tasks[i].pc = "resolving"
    /\ \E r \in ResolveOutcomes(tasks[i].target) :
          /\ ~r.ok
          /\ tasks' = [tasks EXCEPT ![i].pc = "finished",
                                    ![i].resolve = <<r>>,
                                    ![i].result = <<ErrorResult(tasks[i].target, r.message)>>]
    /\ resolver_owner' = 0
    /\ UNCHANGED <<boot_pc, config, pp_pc, pp_results>>

\* target.resolve(..) returns Ok, drop(resolver), and sample_pings up to its
\* first await: with samples == 0 it returns two empty vectors and the task
\* returns their digest; otherwise the ICMP client is created.
ResolveOk(i) ==
    /\ tasks[i].pc = "resolving"
    /\ \E r \in ResolveOutcomes(tasks[i].target) :
          /\ r.ok
          /\ tasks' =
                IF config.samples = 0
                THEN [tasks EXCEPT ![i].pc = "finished",
                                   ![i].resolve = <<r>>,
                                   ![i].addr = r.addr,
                                   ![i].result = <<SummaryResult(tasks[i].target, <<>>, <<>>)>>]
                ELSE [tasks EXCEPT ![i].pc = "spawn",
                                   ![i].resolve = <<r>>,
                                   ![i].addr = r.addr]
    /\ resolver_owner' = 0
    /\ UNCHANGED <<boot_pc, config, pp_pc, pp_results>>

\* The same, when surge_ping::Client::new(..).unwrap() panics (the socket
\* cannot be opened): the task ends in a panic.
ResolveOkClientPanic(i) ==
    /\ tasks[i].pc = "resolving"
    /\ config.samples # 0
    /\ \E r \in ResolveOutcomes(tasks[i].target) :
          /\ r.ok
          /\ tasks' = [tasks EXCEPT ![i].pc = "panicked",
                                    ![i].resolve = <<r>>,
                                    ![i].addr = r.addr]
    /\ resolver_owner' = 0
    /\ UNCHANGED <<boot_pc, config, pp_pc, pp_results>>

\* One iteration of the spawn loop of sample_pings: a probe task for seq is
\* spawned, seq += 1, then sleep(delay) and another iteration, or the break
\* and the allocation of results and errors.
SpawnProbe(i) ==
    /\ tasks[i].pc = "spawn"
    /\ LET t == tasks[i]
           last == ~(t.seq + 1 < config.samples)
       IN  tasks' = [tasks EXCEPT
               ![i].set = t.set \cup {t.seq},
               ![i].sent = Append(t.sent, PingSequence(t.seq)),
               ![i].seq = t.seq + 1,
               ![i].pc = IF last THEN "join" ELSE "spawn",
               ![i].results = IF last THEN [k \in 1..config.samples |-> F_NAN]
                              ELSE t.results]
    /\ UNCHANGED <<boot_pc, config, pp_pc, resolver_owner, pp_results>>

\* Where a joined probe's RTT is stored: the slot after the one of its seq.
ResultSlotOffByOne(seq) == ((seq + 1) % config.samples) + 1
\* results[seq] (vectors are 1-based here)
ResultSlot(seq) == seq + 1

\* One iteration of while let Some(join_result) = set.join_next().await:
\* the probe spawned with seq has completed with the outcome o.
JoinProbe(i) ==
    /\ tasks[i].pc = "join"
    /\ \E seq \in tasks[i].set, o \in ProbeOutcomes :
          LET t == tasks[i]
          IN  tasks' = [tasks EXCEPT
                  ![i].set = t.set \ {seq},
                  ![i].probe = [t.probe EXCEPT ![seq] = o],
                  ![i].results = IF o.ok
                                 THEN [t.results EXCEPT ![ResultSlot(seq)] = o.rtt]
                                 ELSE t.results,
                  ![i].errors = IF o.ok THEN t.errors ELSE Append(t.errors, o.kind)]
    /\ UNCHANGED <<boot_pc, config, pp_pc, resolver_owner, pp_results>>

\* join_next() returns None: sample_pings returns and the task returns the
\* digest of what it collected.
FinishTask(i) ==
    /\ tasks[i].pc = "join"
    /\ tasks[i].set = {}
    /\ tasks' = [tasks EXCEPT
            ![i].pc = "finished",
            ![i].result = <<SummaryResult(tasks[i].target, tasks[i].results,
                                          tasks[i].errors)>>]
    /\ UNCHANGED <<boot_pc, config, pp_pc, resolver_owner, pp_results>>

\* perform_ping: set.join_next().await returns a finished task's result.
JoinNext(i) ==
    /\ pp_pc = "joining"
    /\ tasks[i].pc = "finished" /\ ~tasks[i].joined
    /\ pp_results' = Append(pp_results, tasks[i].result[1])
    /\ tasks' = [tasks EXCEPT ![i].joined = TRUE]
    /\ UNCHANGED <<boot_pc, config, pp_pc, resolver_owner>>

\* perform_ping: join_result.unwrap() panics on the JoinError of a task
\* that panicked.
JoinNextPanic(i) ==
    /\ pp_pc = "joining"
    /\ tasks[i].pc = "panicked" /\ ~tasks[i].joined
    /\ pp_pc' = "panicked"
    /\ tasks' = [tasks EXCEPT ![i].joined = TRUE]
    /\ UNCHANGED <<boot_pc, config, resolver_owner, pp_results>>

\* A perform_ping that returns after the first result (an if let in the
\* place of the while let).
PerformPingReturnEarly ==
    /\ pp_pc = "joining"
    /\ pp_results # <<>>
    /\ pp_pc' = "returned"
    /\ UNCHANGED <<boot_pc, config, resolver_owner, tasks, pp_results>>

\* perform_ping: join_next() returns None, Ok(results).
PerformPingReturn ==
    /\ pp_pc = "joining"
    /\ \A i \in Targets : tasks[i].joined
    /\ pp_pc' = "returned"
    /\ UNCHANGED <<boot_pc, config, resolver_owner, tasks, pp_results>>

----------------------------------------------------------------------------
(* src/speedtest/http.rs                                                   *)
(* Instants and durations are milliseconds; the clock is advanced by the   *)
(* environment. timeout_at(end, fut) polls fut first: it gives Ok when     *)
(* fut is ready at the poll, and Err once the clock has reached end and    *)
(* fut is not ready.                                                       *)

\* MIN_SAMPLE_TIME (ms)
MIN_SAMPLE_TIME == 50

\* The providers of the model: durations in ms, upload_chunk_size in bytes.
Providers ==
    {[download_duration |-> 100, upload_duration |-> 50, upload_chunk_size |-> 4],
     [download_duration |-> 50, upload_duration |-> 100, upload_chunk_size |-> 0]}

\* How far the clock moves between two events, and the chunk sizes.
ClockSteps == {25, 50}
ChunkSizes == {1, 2}

\* SpeedtestSample
Sample(bytes, seconds) == [bytes |-> bytes, seconds |-> seconds]

\* prepare_measurements(duration) at the instant start_time
prepare_measurements(duration, start_time) ==
    [start_time |-> start_time, end_time |-> start_time + duration,
     samples |-> <<>>, total_bytes |-> 0, last_chunk_time |-> start_time]

\* finish_measurements(locals)
finish_measurements(l) ==
    [samples |-> l.samples,
     total |-> Sample(l.total_bytes, l.last_chunk_time - l.start_time)]

SpeedIdle ==
    /\ provider = [download_duration |-> 0, upload_duration |-> 0,
                   upload_chunk_size |-> 0]
    /\ sp_kind = "none" /\ sp_pc = "off" /\ now = 0
    /\ locals = prepare_measurements(0, 0)
    /\ sample_bytes = 0 /\ sp_data = <<>> /\ gets = <<>> /\ posts = <<>>
    /\ chunks = 0

\* Time passes while the measurement waits (bounded: the clock stops one
\* step past the deadline).
Tick ==
    /\ sp_pc \in {"send", "chunk", "post"}
    /\ now <= locals.end_time
    /\ \E d \in ClockSteps : now' = now + d
    /\ UNCHANGED <<provider, sp_kind, sp_pc, locals, sample_bytes, sp_data,
                   gets, posts, chunks>>

\* measure_download: prepare_measurements(self.download_duration), then
\* collect_download_data up to the first send().await.
MeasureDownload ==
    /\ sp_pc = "idle"
    /\ sp_kind' = "download"
    /\ locals' = prepare_measurements(provider.download_duration, now)
    /\ sample_bytes' = 0
    /\ gets' = <<now>>
    /\ sp_pc' = "send"
    /\ UNCHANGED <<provider, now, sp_data, posts, chunks>>

\* send().await?.error_for_status()? gives a response.
SendOk ==
    /\ sp_pc = "send"
    /\ sp_pc' = "chunk"
    /\ UNCHANGED <<provider, sp_kind, now, locals, sample_bytes, sp_data, gets,
                   posts, chunks>>

\* send().await? or error_for_status()? fails: measure_download returns Err.
SendErr ==
    /\ sp_pc = "send"
    /\ sp_pc' = "error"
    /\ UNCHANGED <<provider, sp_kind, now, locals, sample_bytes, sp_data, gets,
                   posts, chunks>>

\* A chunk accounting whose samples are all measured from start_time.
record_chunk_from_start(l, pending_bytes, bytes, at) ==
    LET sampled == pending_bytes + bytes
    IN  IF at - l.last_chunk_time >= MIN_SAMPLE_TIME
        THEN [locals |-> [l EXCEPT
                 !.total_bytes = l.total_bytes + bytes,
                 !.samples = Append(l.samples, Sample(sampled, at - l.start_time)),
                 !.last_chunk_time = at],
              sample_bytes |-> 0]
        ELSE [locals |-> [l EXCEPT !.total_bytes = l.total_bytes + bytes],
              sample_bytes |-> sampled]

\* The download loop's handling of a chunk: total_bytes and sample_bytes
\* grow, and a sample is pushed once MIN_SAMPLE_TIME has passed since
\* last_chunk_time. The result is the new locals and sample_bytes.
record_chunk(l, pending_bytes, bytes, at) ==
    LET sampled == pending_bytes + bytes
    IN  IF at - l.last_chunk_time >= MIN_SAMPLE_TIME
        THEN [locals |-> [l EXCEPT
                 !.total_bytes = l.total_bytes + bytes,
                 !.samples = Append(l.samples, Sample(sampled, at - l.last_chunk_time)),
                 !.last_chunk_time = at],
              sample_bytes |-> 0]
        ELSE [locals |-> [l EXCEPT !.total_bytes = l.total_bytes + bytes],
              sample_bytes |-> sampled]

\* timeout_at(end_time, response.chunk()) gives Ok(Ok(Some(chunk))).
ChunkSome ==
    /\ sp_pc = "chunk"
    /\ chunks < MaxChunks
    /\ \E bytes \in ChunkSizes :
          LET r == record_chunk(locals, sample_bytes, bytes, now)
          IN  locals' = r.locals /\ sample_bytes' = r.sample_bytes
    /\ chunks' = chunks + 1
    /\ UNCHANGED <<provider, sp_kind, sp_pc, now, sp_data, gets, posts>>

\* timeout_at(..) gives Ok(Ok(None)): the stream has ended, break, and the
\* outer loop issues the next GET.
ChunkNone ==
    /\ sp_pc = "chunk"
    /\ Len(gets) < MaxRequests
    /\ gets' = Append(gets, now)
    /\ sp_pc' = "send"
    /\ UNCHANGED <<provider, sp_kind, now, locals, sample_bytes, sp_data, posts,
                   chunks>>

\* timeout_at(..) gives Ok(Err(..)): result? returns the error.
ChunkErr ==
    /\ sp_pc = "chunk"
    /\ sp_pc' = "error"
    /\ UNCHANGED <<provider, sp_kind, now, locals, sample_bytes, sp_data, gets,
                   posts, chunks>>

\* timeout_at(..) gives Err(Elapsed): break 'outer, Ok(()), and
\* measure_download returns finish_measurements(locals).
ChunkTimeout ==
    /\ sp_pc = "chunk"
    /\ now >= locals.end_time
    /\ sp_data' = <<finish_measurements(locals)>>
    /\ sp_pc' = "done"
    /\ UNCHANGED <<provider, sp_kind, now, locals, sample_bytes, gets, posts, chunks>>

\* measure_upload: prepare_measurements(self.download_duration), then
\* collect_upload_data up to the first POST under timeout_at.
MeasureUpload ==
    /\ sp_pc = "idle"
    /\ sp_kind' = "upload"
    /\ locals' = prepare_measurements(provider.download_duration, now)
    /\ posts' = <<[issued |-> now, ended |-> "pending", at |-> now]>>
    /\ sp_pc' = "post"
    /\ UNCHANGED <<provider, now, sample_bytes, sp_data, gets, chunks>>

\* The last POST, ended as given at the present instant.
EndPost(how) == [posts EXCEPT ![Len(posts)].ended = how, ![Len(posts)].at = now]

\* The body of the while let: a sample of upload_chunk_size bytes.
record_upload(l, size, at) ==
    [l EXCEPT !.samples = Append(l.samples, Sample(size, at - l.last_chunk_time)),
              !.total_bytes = l.total_bytes + size,
              !.last_chunk_time = at]

\* timeout_at(..) gives Ok(Ok(response)): the sample is recorded and the
\* loop issues the next POST.
PostOk ==
    /\ sp_pc = "post"
    /\ Len(posts) < MaxRequests
    /\ locals' = record_upload(locals, provider.upload_chunk_size, now)
    /\ posts' = Append(EndPost("Ok"), [issued |-> now, ended |-> "pending", at |-> now])
    /\ UNCHANGED <<provider, sp_kind, sp_pc, now, sample_bytes, sp_data, gets, chunks>>

\* timeout_at(..) gives Ok(Err(..)): result? returns the error.
PostErr ==
    /\ sp_pc = "post"
    /\ posts' = EndPost("Err")
    /\ sp_pc' = "error"
    /\ UNCHANGED <<provider, sp_kind, now, locals, sample_bytes, sp_data, gets, chunks>>

\* A cut-off POST that is counted like a completed one.
PostTimeoutCounted ==
    /\ sp_pc = "post"
    /\ now >= locals.end_time
    /\ posts' = EndPost("Elapsed")
    /\ locals' = record_upload(locals, provider.upload_chunk_size, now)
    /\ sp_data' = <<finish_measurements(locals')>>
    /\ sp_pc' = "done"
    /\ UNCHANGED <<provider, sp_kind, now, sample_bytes, gets, chunks>>

\* timeout_at(..) gives Err(Elapsed): the while let ends, Ok(()), and
\* measure_upload returns finish_measurements(locals).
PostTimeout ==
    /\ sp_pc = "post"
    /\ now >= locals.end_time
    /\ posts' = EndPost("Elapsed")
    /\ sp_data' = <<finish_measurements(locals)>>
    /\ sp_pc' = "done"
    /\ UNCHANGED <<provider, sp_kind, now, locals, sample_bytes, gets, chunks>>

----------------------------------------------------------------------------
(* src/speedtest.rs: SpeedtestSummary::digest_data                         *)
(* A sample's seconds are milliseconds, as in the measurement loops, and a *)
(* quantile is its hundredfold. Quotients of f64 are compared as exact     *)
(* fractions.                                                              *)

\* Duration::as_secs_f64: the milliseconds of a second
MS_PER_SECOND == 1000

\* (+inf as i64) * 8 where overflow is not checked: i64::MAX * 8 wraps to -8
SATURATED_TIMES_8 == -8

\* bytes / seconds is +inf, so that bps() multiplies i64::MAX by 8
bps_overflows(sample) == sample.seconds = 0 /\ sample.bytes > 0

\* SpeedtestSample::bps where it returns: (bytes / seconds) as i64 * 8, the
\* cast truncating, NaN as i64 being 0 and +inf as i64 being i64::MAX.
bps(sample) ==
    IF sample.seconds = 0
    THEN IF sample.bytes = 0 THEN 0 ELSE SATURATED_TIMES_8
    ELSE ((sample.bytes * MS_PER_SECOND) \div sample.seconds) * 8

\* The orders samples.sort_unstable_by_key(|d| d.bps()) can leave: the sort
\* is not stable, so samples of equal bps end in any order.
SortedOrders(samples) ==
    LET n == Len(samples)
        Perms == {f \in [1..n -> 1..n] : \A a, b \in 1..n : a # b => f[a] # f[b]}
        Orders == {[k \in 1..n |-> samples[f[k]]] : f \in Perms}
    IN  {o \in Orders : \A k \in 1..(n - 1) : bps(o[k]) <= bps(o[k + 1])}

\* A comparison that leaves out the sample whose midpoint is exactly at q.
ReachesQuantileStrictly(twice_current, total_seconds, q) ==
    twice_current * 100 > 2 * q * total_seconds

\* current_seconds / total.seconds >= q, given twice current_seconds
ReachesQuantile(twice_current, total_seconds, q) ==
    twice_current * 100 >= 2 * q * total_seconds

\* The inner loop for one sample. st is [current_quantile, map, broke]:
\* broke is the break 'outer taken when every quantile has its value.
RECURSIVE QuantilesOfSample(_, _, _, _, _)
QuantilesOfSample(sample, twice_current, total_seconds, quantiles, st) ==
    LET q == quantiles[st.current_quantile + 1]
    IN  IF ReachesQuantile(twice_current, total_seconds, q)
        THEN LET pushed == [st EXCEPT !.map = Append(@, <<q, bps(sample)>>),
                                      !.current_quantile = @ + 1]
             IN  IF pushed.current_quantile >= Len(quantiles)
                 THEN [pushed EXCEPT !.broke = TRUE]
                 ELSE QuantilesOfSample(sample, twice_current, total_seconds,
                                        quantiles, pushed)
        ELSE st

\* 'outer: for sample in samples.iter(), from the i-th sample on.
RECURSIVE QuantilesOfSamples(_, _, _, _, _, _)
QuantilesOfSamples(sorted, i, covered_seconds, total_seconds, quantiles, st) ==
    IF i > Len(sorted) \/ st.broke
    THEN st
    ELSE QuantilesOfSamples(sorted, i + 1, covered_seconds + sorted[i].seconds,
             total_seconds, quantiles,
             QuantilesOfSample(sorted[i], 2 * covered_seconds + sorted[i].seconds,
                               total_seconds, quantiles, st))

\* The state of the quantile loop when it ends.
WeightedQuantiles(sorted, total, quantiles) ==
    QuantilesOfSamples(sorted, 1, 0, total.seconds, quantiles,
                       [current_quantile |-> 0, map |-> <<>>, broke |-> FALSE])

\* if !quantiles.is_empty() && total.seconds > 0.
EntersQuantiles(total, quantiles) == quantiles # <<>> /\ total.seconds > 0

\* samples.last().unwrap() is reached with no sample
LastOfNone(sorted, total, quantiles) ==
    /\ EntersQuantiles(total, quantiles)
    /\ sorted = <<>>

\* quantiles_map when the function returns
quantiles_map(sorted, total, quantiles) ==
    IF ~EntersQuantiles(total, quantiles) \/ sorted = <<>>
    THEN <<>>
    ELSE LET st == WeightedQuantiles(sorted, total, quantiles)
             IsOneOrMore(q) == q >= 100
             remaining == SelectSeq(SubSeq(quantiles, st.current_quantile + 1,
                                           Len(quantiles)), IsOneOrMore)
             last == bps(sorted[Len(sorted)])
         IN  st.map \o [k \in 1..Len(remaining) |-> <<remaining[k], last>>]

\* The sum of the samples' bps (an i64)
sum_bps(sorted) == SumSeq([k \in 1..Len(sorted) |-> bps(sorted[k])])

\* stddev for data whose total.seconds is the sum of the samples' seconds:
\* NaN when the sum is divided by 0.0 or holds a term 0.0 * inf, 0 when
\* every sample has the mean's rate.
stddev(sorted, total) ==
    IF total.seconds = 0 \/ \E k \in 1..Len(sorted) : sorted[k].seconds = 0
    THEN "NaN"
    ELSE IF \A k \in 1..Len(sorted) :
                sorted[k].bytes * total.seconds = total.bytes * sorted[k].seconds
         THEN "zero"
         ELSE "positive"

\* Where digest_data panics: with overflow checks, at the first bps() that
\* overflows; without, at last().unwrap() on no sample and at a
\* try_into::<u64>().unwrap() of a negative bps (a quantile's, the mean,
\* the sum).
digest_data_panics(build, sorted, total, quantiles) ==
    \/ /\ build = "debug"
       /\ \/ bps_overflows(total)
          \/ \E k \in 1..Len(sorted) : bps_overflows(sorted[k])
    \/ LastOfNone(sorted, total, quantiles)
    \/ LET map == quantiles_map(sorted, total, quantiles)
       IN  \E k \in 1..Len(map) : map[k][2] < 0
    \/ bps(total) < 0
    \/ sum_bps(sorted) < 0

\* SpeedtestSummary::digest_data, after the sort
speedtest_digest_data(sorted, total, quantiles) ==
    [quantiles |-> quantiles_map(sorted, total, quantiles),
     mean |-> bps(total),
     stddev |-> stddev(sorted, total),
     sum |-> sum_bps(sorted),
     count |-> Len(sorted)]

\* The data finish_measurements can hand over: a download's samples last at
\* least MIN_SAMPLE_TIME and its total can hold bytes no sample has; an
\* upload's samples all have upload_chunk_size bytes.
DownloadSamples == {Sample(1000, 1000), Sample(4000, 1000), Sample(4000, 500)}
UploadSamples(size) == {Sample(size, 0), Sample(size, 50)}
SampleBytesOf(samples) == SumSeq([k \in 1..Len(samples) |-> samples[k].bytes])
SamplesUpTo(S) == UNION {[1..n -> S] : n \in 0..MaxSamples}
DataOf(samples, unsampled_bytes) ==
    [samples |-> samples,
     total |-> Sample(SampleBytesOf(samples) + unsampled_bytes,
                      SumSeq([k \in 1..Len(samples) |-> samples[k].seconds]))]
DigestInputs ==
    {DataOf(ss, u) : ss \in SamplesUpTo(DownloadSamples), u \in {0, 1}}
    \cup {DataOf(ss, 0) : ss \in SamplesUpTo(UploadSamples(4))}
    \cup {DataOf(ss, 0) : ss \in SamplesUpTo(UploadSamples(0))}

\* The quantile lists of the model, ascending as load_config leaves them.
QuantileLists ==
    {<<>>, <<0>>, <<50>>, <<100>>, <<0, 100>>, <<25, 75, 100>>,
     <<25, 75, 90, 100>>, <<0, 25, 50, 75, 90, 100>>}

DigestIdle ==
    /\ dg_build = "release" /\ dg_data = DataOf(<<>>, 0) /\ dg_quantiles = <<>>
    /\ dg_pc = "off" /\ dg_summary = <<>>

\* digest_data returns
DigestData ==
    /\ dg_pc = "call"
    /\ \E sorted \in SortedOrders(dg_data.samples) :
          /\ ~digest_data_panics(dg_build, sorted, dg_data.total, dg_quantiles)
          /\ dg_summary' = <<speedtest_digest_data(sorted, dg_data.total, dg_quantiles)>>
    /\ dg_pc' = "done"
    /\ UNCHANGED <<dg_build, dg_data, dg_quantiles>>

\* digest_data panics
DigestDataPanic ==
    /\ dg_pc = "call"
    /\ \E sorted \in SortedOrders(dg_data.samples) :
          digest_data_panics(dg_build, sorted, dg_data.total, dg_quantiles)
    /\ dg_pc' = "panicked"
    /\ UNCHANGED <<dg_build, dg_data, dg_quantiles, dg_summary>>

----------------------------------------------------------------------------
(* src/ping.rs: the spawn loop of sample_pings, for any usize of samples.  *)
(* The loop's state is its counter: after k iterations seq = k and the     *)
(* probes 0..k-1 have been spawned, so the loop is entered here at the    *)
(* first iteration and at any of the SeqWindow iterations before the       *)
(* 65536th.                                                                *)

\* The sample counts of the model, around the range of a u16.
SampleCounts == {1, 2, U16_RANGE - 1, U16_RANGE, U16_RANGE + 1, U16_RANGE + 2}

\* The probe spawned with the index seq and what PingSequence gives it.
Spawned(seq) == [index |-> seq, wire |-> PingSequence(seq)]

SeqIdle ==
    /\ sq_samples = 0 /\ sq_seq = 0 /\ sq_spawned = <<>> /\ sq_pc = "off"

\* One iteration of the loop: set.spawn(.. PingSequence(seq as u16) ..),
\* seq += 1, then the sleep and the next iteration, or the break.
SpawnSequence ==
    /\ sq_pc = "spawn"
    /\ sq_spawned' = <<Spawned(sq_seq)>>
    /\ sq_seq' = sq_seq + 1
    /\ sq_pc' = IF sq_seq + 1 < sq_samples THEN "spawn" ELSE "join"
    /\ UNCHANGED sq_samples

\* set.join_next() returns None when every probe has been joined.
JoinSequence ==
    /\ sq_pc = "join"
    /\ sq_pc' = "returned"
    /\ UNCHANGED <<sq_samples, sq_seq, sq_spawned>>

----------------------------------------------------------------------------
(* src/main.rs: get_ping and get_speedtest. What perform_ping and the two  *)
(* measurements return is an input of the handler.                         *)

TEXT_PLAIN == "text/plain"
APPLICATION_JSON == "application/json"
TEXT_HTML == "text/html"
TEXT_HTML_UTF_8 == "text/html; charset=utf-8"
TEXT_PLAIN_UTF_8 == "text/plain; charset=utf-8"
TEXT_PLAIN_UTF_8_VERSION_4 == "text/plain; version=0.0.4; charset=utf-8"

\* response_type.type_() == TEXT, and response_type.get_param("version")
IsText(mime) == mime \in {TEXT_PLAIN, TEXT_HTML, TEXT_HTML_UTF_8, TEXT_PLAIN_UTF_8,
                          TEXT_PLAIN_UTF_8_VERSION_4}
HasVersion(mime) == mime = TEXT_PLAIN_UTF_8_VERSION_4

\* An Accept header: present or not; readable when to_str() and the parse
\* succeed; the media types it lists, in priority order; a wildcard or not.
Accept(present, readable, types, wildcard) ==
    [present |-> present, readable |-> readable, types |-> types,
     wildcard |-> wildcard]
AcceptHeaders ==
    {Accept(FALSE, FALSE, <<>>, FALSE),
     Accept(TRUE, TRUE, <<TEXT_PLAIN>>, FALSE),
     Accept(TRUE, TRUE, <<APPLICATION_JSON>>, FALSE),
     Accept(TRUE, TRUE, <<TEXT_HTML, APPLICATION_JSON>>, FALSE),
     Accept(TRUE, TRUE, <<>>, TRUE),
     Accept(TRUE, TRUE, <<"application/xml">>, FALSE),
     Accept(TRUE, TRUE, <<TEXT_HTML>>, FALSE),
     Accept(TRUE, FALSE, <<"application/xml">>, FALSE)}

\* accept.negotiate(available): the first listed type that is available,
\* the first available type for a wildcard, else 406.
negotiate(accept, available) ==
    LET hits == {k \in 1..Len(accept.types) :
                    \E a \in 1..Len(available) : available[a] = accept.types[k]}
        first == CHOOSE k \in hits : \A j \in hits : k <= j
    IN  IF hits # {}
        THEN [ok |-> TRUE, mime |-> accept.types[first], code |-> 200]
        ELSE IF accept.wildcard
             THEN [ok |-> TRUE, mime |-> available[1], code |-> 200]
             ELSE [ok |-> FALSE, mime |-> "", code |-> 406]

\* A negotiation that falls back to the default type when nothing matches.
negotiate_prometheus_mime_or_default(accept) ==
    LET chosen == IF accept.present /\ accept.readable
                  THEN negotiate(accept, <<TEXT_PLAIN, APPLICATION_JSON>>)
                  ELSE [ok |-> TRUE, mime |-> TEXT_PLAIN_UTF_8_VERSION_4, code |-> 200]
    IN  [ok |-> TRUE, code |-> 200,
         mime |-> IF ~chosen.ok \/ (IsText(chosen.mime) /\ ~HasVersion(chosen.mime))
                  THEN TEXT_PLAIN_UTF_8_VERSION_4
                  ELSE chosen.mime]

\* negotiate_prometheus_mime(headers)
negotiate_prometheus_mime(accept) ==
    LET chosen == IF accept.present /\ accept.readable
                  THEN negotiate(accept, <<TEXT_PLAIN, APPLICATION_JSON>>)
                  ELSE [ok |-> TRUE, mime |-> TEXT_PLAIN_UTF_8_VERSION_4, code |-> 200]
    IN  IF ~chosen.ok
        THEN chosen
        ELSE [chosen EXCEPT !.mime =
                 IF IsText(chosen.mime) /\ ~HasVersion(chosen.mime)
                 THEN TEXT_PLAIN_UTF_8_VERSION_4
                 ELSE IF chosen.mime = TEXT_HTML THEN TEXT_HTML_UTF_8
                 ELSE chosen.mime]

\* Response::builder().status(code).body(String::new())
EmptyResponse(code) == [status |-> code, content_type |-> "", body |-> <<>>]

\* error_to_500(&error)
error_to_500(message) ==
    [status |-> 500, content_type |-> TEXT_PLAIN_UTF_8, body |-> <<message>>]

\* The 200 response: the exposition text or the pretty JSON of data.
OkResponse(mime, data) ==
    [status |-> 200, content_type |-> mime,
     body |-> <<[format |-> IF IsText(mime) THEN "prometheus" ELSE "json",
                 data |-> data]>>]

\* What measure_download and measure_upload can return to the handler.
MeasurementResults ==
    {[ok |-> TRUE, data |-> DataOf(<<>>, 0), message |-> ""],
     [ok |-> TRUE, data |-> DataOf(<<>>, 1), message |-> ""],
     [ok |-> TRUE, data |-> DataOf(<<Sample(1000, 1000), Sample(4000, 1000)>>, 0),
      message |-> ""],
     [ok |-> FALSE, data |-> DataOf(<<>>, 0), message |-> "error sending request"],
     [ok |-> FALSE, data |-> DataOf(<<>>, 0),
      message |-> "HTTP status client error (404 Not Found)"]}

\* What perform_ping can return to the handler.
PerformPingResults ==
    {[ok |-> TRUE, data |-> <<>>, message |-> ""],
     [ok |-> TRUE, data |-> <<ErrorResult(DomainTarget, "no record found")>>,
      message |-> ""],
     [ok |-> FALSE, data |-> <<>>, message |-> "io error"]}

\* A call the handler has made, or what the call has returned.
Event(what, outcome, message) ==
    [what |-> what, outcome |-> outcome, message |-> message]

HttpIdle ==
    /\ request = [path |-> "", accept |-> Accept(FALSE, FALSE, <<>>, FALSE)]
    /\ h_pc = "off" /\ response_type = <<>>
    /\ download_data = <<>> /\ upload_data = <<>>
    /\ started = <<>> /\ response = <<>>

AppIdle == DigestIdle /\ SeqIdle /\ HttpIdle

\* get_ping up to its first await: the negotiation, then either the 406 or
\* the call of perform_ping.
GetPing ==
    /\ h_pc = "start" /\ request.path = "/ping"
    /\ LET n == negotiate_prometheus_mime(request.accept)
       IN  IF n.ok
           THEN /\ response_type' = <<n.mime>>
                /\ started' = Append(started, Event("perform_ping", "called", ""))
                /\ h_pc' = "perform_ping"
                /\ UNCHANGED response
           ELSE /\ response' = <<EmptyResponse(n.code)>>
                /\ h_pc' = "responded"
                /\ UNCHANGED <<response_type, started>>
    /\ UNCHANGED <<request, download_data, upload_data>>

\* perform_ping returns Ok(data): the body is written and the 200 returned.
PerformPingOk ==
    /\ h_pc = "perform_ping"
    /\ \E r \in PerformPingResults :
          /\ r.ok
          /\ response' = <<OkResponse(response_type[1], r.data)>>
          /\ started' = Append(started, Event("perform_ping", "Ok", ""))
    /\ h_pc' = "responded"
    /\ UNCHANGED <<request, response_type, download_data, upload_data>>

\* perform_ping returns Err(error)
PerformPingErr ==
    /\ h_pc = "perform_ping"
    /\ \E r \in PerformPingResults :
          /\ ~r.ok
          /\ response' = <<error_to_500(r.message)>>
          /\ started' = Append(started, Event("perform_ping", "Err", r.message))
    /\ h_pc' = "responded"
    /\ UNCHANGED <<request, response_type, download_data, upload_data>>

\* get_speedtest up to its first await: the negotiation, then either the
\* 406 or the call of measure_download.
GetSpeedtest ==
    /\ h_pc = "start" /\ request.path = "/speedtest"
    /\ LET n == negotiate_prometheus_mime(request.accept)
       IN  IF n.ok
           THEN /\ response_type' = <<n.mime>>
                /\ started' = Append(started, Event("measure_download", "called", ""))
                /\ h_pc' = "measure_download"
                /\ UNCHANGED response
           ELSE /\ response' = <<EmptyResponse(n.code)>>
                /\ h_pc' = "responded"
                /\ UNCHANGED <<response_type, started>>
    /\ UNCHANGED <<request, download_data, upload_data>>

\* measure_download returns Ok(rates): its digestion is handed to
\* spawn_blocking and measure_upload is called.
MeasureDownloadOk ==
    /\ h_pc = "measure_download"
    /\ \E r \in MeasurementResults :
          /\ r.ok
          /\ download_data' = <<r.data>>
    /\ started' = started \o <<Event("measure_download", "Ok", ""),
                               Event("measure_upload", "called", "")>>
    /\ h_pc' = "measure_upload"
    /\ UNCHANGED <<request, response_type, upload_data, response>>

\* A failed download after which the upload is measured all the same.
MeasureDownloadErrIgnored ==
    /\ h_pc = "measure_download"
    /\ \E r \in MeasurementResults :
          /\ ~r.ok
          /\ download_data' = <<r.data>>
          /\ started' = started \o <<Event("measure_download", "Err", r.message),
                                     Event("measure_upload", "called", "")>>
    /\ h_pc' = "measure_upload"
    /\ UNCHANGED <<request, response_type, upload_data, response>>

\* measure_download returns Err(error): return error_to_500(&error)
MeasureDownloadErr ==
    /\ h_pc = "measure_download"
    /\ \E r \in MeasurementResults :
          /\ ~r.ok
          /\ response' = <<error_to_500(r.message)>>
          /\ started' = Append(started, Event("measure_download", "Err", r.message))
    /\ h_pc' = "responded"
    /\ UNCHANGED <<request, response_type, download_data, upload_data>>

\* measure_upload returns Ok(rates): its digestion is handed to
\* spawn_blocking and the handler awaits the two digestions.
MeasureUploadOk ==
    /\ h_pc = "measure_upload"
    /\ \E r \in MeasurementResults :
          /\ r.ok
          /\ upload_data' = <<r.data>>
    /\ started' = Append(started, Event("measure_upload", "Ok", ""))
    /\ h_pc' = "digest"
    /\ UNCHANGED <<request, response_type, download_data, response>>

\* measure_upload returns Err(error): return error_to_500(&error)
MeasureUploadErr ==
    /\ h_pc = "measure_upload"
    /\ \E r \in MeasurementResults :
          /\ ~r.ok
          /\ response' = <<error_to_500(r.message)>>
          /\ started' = Append(started, Event("measure_upload", "Err", r.message))
    /\ h_pc' = "responded"
    /\ UNCHANGED <<request, response_type, download_data, upload_data>>

\* The two digestions return: the body is written and the 200 returned.
SpeedtestRespond ==
    /\ h_pc = "digest"
    /\ \E down \in SortedOrders(download_data[1].samples),
          up \in SortedOrders(upload_data[1].samples) :
          /\ ~digest_data_panics(dg_build, down, download_data[1].total,
                                 config.speedtest_quantiles)
          /\ ~digest_data_panics(dg_build, up, upload_data[1].total,
                                 config.speedtest_quantiles)
          /\ response' = <<OkResponse(response_type[1],
                 [down |-> speedtest_digest_data(down, download_data[1].total,
                                                 config.speedtest_quantiles),
                  up |-> speedtest_digest_data(up, upload_data[1].total,
                                               config.speedtest_quantiles)])>>
    /\ h_pc' = "responded"
    /\ UNCHANGED <<request, response_type, download_data, upload_data, started>>

\* A digestion has panicked: download_data.await.unwrap() or
\* upload_data.await.unwrap() panics, and no response is returned.
SpeedtestDigestPanic ==
    /\ h_pc = "digest"
    /\ \/ \E down \in SortedOrders(download_data[1].samples) :
             digest_data_panics(dg_build, down, download_data[1].total,
                                config.speedtest_quantiles)
       \/ \E up \in SortedOrders(upload_data[1].samples) :
             digest_data_panics(dg_build, up, upload_data[1].total,
                                config.speedtest_quantiles)
    /\ h_pc' = "panicked"
    /\ UNCHANGED <<request, response_type, download_data, upload_data, started,
                   response>>

----------------------------------------------------------------------------
(* Specifications: one per component.                                      *)

InitStrings ==
    /\ \E s \in StrInputs :
          /\ esc_input = s /\ esc_inner = s /\ pn_input = s
    /\ esc_char = <<>> /\ esc_out = <<>> /\ esc_done = FALSE
    /\ pn_result = "none" /\ pn_name = <<>>
    /\ FloatIdle /\ ExpoIdle /\ PingIdle /\ SpeedIdle /\ AppIdle

NextStrings ==
    \/ EscapeStep /\ UNCHANGED <<floatVars, expoVars, pingVars, speedVars, appVars>>
    \/ PNameNew /\ UNCHANGED <<floatVars, expoVars, pingVars, speedVars, appVars>>

SpecStrings == InitStrings /\ [][NextStrings]_vars

InitFloat ==
    /\ \E kind \in FloatKinds :
          /\ fl_kind = kind
          /\ fl_float \in FloatInputs(kind)
          /\ fl_fraction = {}
    /\ fl_out = <<>> /\ fl_pc = "start"
    /\ StrIdle /\ ExpoIdle /\ PingIdle /\ SpeedIdle /\ AppIdle

NextFloat ==
    \/ FloatNaN /\ UNCHANGED <<strVars, expoVars, pingVars, speedVars, appVars>>
    \/ FloatInf /\ UNCHANGED <<strVars, expoVars, pingVars, speedVars, appVars>>
    \/ FloatZero /\ UNCHANGED <<strVars, expoVars, pingVars, speedVars, appVars>>
    \/ FloatHeader /\ UNCHANGED <<strVars, expoVars, pingVars, speedVars, appVars>>
    \/ FloatDigit /\ UNCHANGED <<strVars, expoVars, pingVars, speedVars, appVars>>
    \/ FloatExponent /\ UNCHANGED <<strVars, expoVars, pingVars, speedVars, appVars>>

SpecFloat == InitFloat /\ [][NextFloat]_vars

InitExpo ==
    ExpoNew /\ StrIdle /\ FloatIdle /\ PingIdle /\ SpeedIdle /\ AppIdle

NextExpo ==
    \/ WithLabelCall /\ UNCHANGED <<strVars, floatVars, pingVars, speedVars, appVars>>
    \/ WithLabelReturn /\ UNCHANGED <<strVars, floatVars, pingVars, speedVars, appVars>>
    \/ WithNameCall /\ UNCHANGED <<strVars, floatVars, pingVars, speedVars, appVars>>
    \/ WithNameReturn /\ UNCHANGED <<strVars, floatVars, pingVars, speedVars, appVars>>
    \/ AddMetricCall /\ UNCHANGED <<strVars, floatVars, pingVars, speedVars, appVars>>
    \/ AddMetricReturn /\ UNCHANGED <<strVars, floatVars, pingVars, speedVars, appVars>>
    \/ MetricWithLabelCall /\ UNCHANGED <<strVars, floatVars, pingVars, speedVars, appVars>>
    \/ MetricWithLabelReturn /\ UNCHANGED <<strVars, floatVars, pingVars, speedVars, appVars>>
    \/ MetricWithNameCall /\ UNCHANGED <<strVars, floatVars, pingVars, speedVars, appVars>>
    \/ MetricWithNameReturn /\ UNCHANGED <<strVars, floatVars, pingVars, speedVars, appVars>>
    \/ AddLine /\ UNCHANGED <<strVars, floatVars, pingVars, speedVars, appVars>>
    \/ AddLineLabeled /\ UNCHANGED <<strVars, floatVars, pingVars, speedVars, appVars>>

\* The runs of the builder in which no closure panics.
SpecExpo == InitExpo /\ [][NextExpo]_vars

NextExpoUnwind ==
    \/ NextExpo
    \/ Panic /\ UNCHANGED <<strVars, floatVars, pingVars, speedVars, appVars>>
    \/ Unwind /\ UNCHANGED <<strVars, floatVars, pingVars, speedVars, appVars>>

\* The runs of the builder in which the body of a closure may panic.
SpecExpoUnwind == InitExpo /\ [][NextExpoUnwind]_vars

InitPing ==
    /\ boot_pc = "start"
    /\ config \in RawConfigs
    /\ pp_pc = "idle" /\ resolver_owner = 0 /\ tasks = <<>> /\ pp_results = <<>>
    /\ StrIdle /\ FloatIdle /\ ExpoIdle /\ SpeedIdle /\ AppIdle

NextPing ==
    \/ LoadConfig /\ UNCHANGED <<libVars, speedVars, appVars>>
    \/ LoadConfigPanic /\ UNCHANGED <<libVars, speedVars, appVars>>
    \/ PerformPing /\ UNCHANGED <<libVars, speedVars, appVars>>
    \/ ResolverUnavailable /\ UNCHANGED <<libVars, speedVars, appVars>>
    \/ \E i \in Targets : AcquireResolver(i) /\ UNCHANGED <<libVars, speedVars, appVars>>
    \/ \E i \in Targets : ResolveErr(i) /\ UNCHANGED <<libVars, speedVars, appVars>>
    \/ \E i \in Targets : ResolveOk(i) /\ UNCHANGED <<libVars, speedVars, appVars>>
    \/ \E i \in Targets : ResolveOkClientPanic(i) /\ UNCHANGED <<libVars, speedVars, appVars>>
    \/ \E i \in Targets : SpawnProbe(i) /\ UNCHANGED <<libVars, speedVars, appVars>>
    \/ \E i \in Targets : JoinProbe(i) /\ UNCHANGED <<libVars, speedVars, appVars>>
    \/ \E i \in Targets : FinishTask(i) /\ UNCHANGED <<libVars, speedVars, appVars>>
    \/ \E i \in Targets : JoinNext(i) /\ UNCHANGED <<libVars, speedVars, appVars>>
    \/ \E i \in Targets : JoinNextPanic(i) /\ UNCHANGED <<libVars, speedVars, appVars>>
    \/ PerformPingReturn /\ UNCHANGED <<libVars, speedVars, appVars>>

\* One scrape of /ping by a process that has just loaded its configuration.
SpecPing == InitPing /\ [][NextPing]_vars

\* A step of the i-th target task, and a step of perform_ping's join loop.
TargetTask(i) ==
    /\ i \in Targets
    /\ \/ AcquireResolver(i) \/ ResolveErr(i) \/ ResolveOk(i)
       \/ ResolveOkClientPanic(i) \/ SpawnProbe(i) \/ JoinProbe(i)
       \/ FinishTask(i)
    /\ UNCHANGED <<libVars, speedVars, appVars>>
PerformPingJoin ==
    /\ \/ \E i \in Targets : JoinNext(i) \/ JoinNextPanic(i)
       \/ PerformPingReturn
    /\ UNCHANGED <<libVars, speedVars, appVars>>

\* The same scrape on a runtime that keeps polling every task that can
\* run, every lookup and every echo request returning at some time.
FairSpecPing ==
    /\ SpecPing
    /\ \A i \in {1, 2} : WF_vars(TargetTask(i))
    /\ WF_vars(PerformPingJoin)

InitSpeedtest ==
    /\ provider \in Providers
    /\ sp_kind = "none" /\ sp_pc = "idle"
    /\ now \in {0, 25}
    /\ locals = prepare_measurements(0, 0)
    /\ sample_bytes = 0 /\ sp_data = <<>> /\ gets = <<>> /\ posts = <<>>
    /\ chunks = 0
    /\ StrIdle /\ FloatIdle /\ ExpoIdle /\ PingIdle /\ AppIdle

NextSpeedtest ==
    \/ Tick /\ UNCHANGED <<libVars, pingVars, appVars>>
    \/ MeasureDownload /\ UNCHANGED <<libVars, pingVars, appVars>>
    \/ SendOk /\ UNCHANGED <<libVars, pingVars, appVars>>
    \/ SendErr /\ UNCHANGED <<libVars, pingVars, appVars>>
    \/ ChunkSome /\ UNCHANGED <<libVars, pingVars, appVars>>
    \/ ChunkNone /\ UNCHANGED <<libVars, pingVars, appVars>>
    \/ ChunkErr /\ UNCHANGED <<libVars, pingVars, appVars>>
    \/ ChunkTimeout /\ UNCHANGED <<libVars, pingVars, appVars>>
    \/ MeasureUpload /\ UNCHANGED <<libVars, pingVars, appVars>>
    \/ PostOk /\ UNCHANGED <<libVars, pingVars, appVars>>
    \/ PostErr /\ UNCHANGED <<libVars, pingVars, appVars>>
    \/ PostTimeout /\ UNCHANGED <<libVars, pingVars, appVars>>

\* One throughput measurement, download or upload, against any server.
SpecSpeedtest == InitSpeedtest /\ [][NextSpeedtest]_vars

InitDigest ==
    /\ dg_build \in {"debug", "release"}
    /\ dg_data \in DigestInputs
    /\ dg_quantiles \in QuantileLists
    /\ dg_pc = "call" /\ dg_summary = <<>>
    /\ StrIdle /\ FloatIdle /\ ExpoIdle /\ PingIdle /\ SpeedIdle
    /\ SeqIdle /\ HttpIdle

NextDigest ==
    \/ DigestData /\ UNCHANGED <<libVars, pingVars, speedVars, seqVars, httpVars>>
    \/ DigestDataPanic /\ UNCHANGED <<libVars, pingVars, speedVars, seqVars, httpVars>>

\* One call of SpeedtestSummary::digest_data on the data of a measurement.
SpecDigest == InitDigest /\ [][NextDigest]_vars

InitSequence ==
    /\ sq_samples \in SampleCounts
    /\ sq_seq \in {0} \cup {k \in (U16_RANGE - SeqWindow)..(U16_RANGE - 1) :
                                k < sq_samples}
    /\ sq_spawned = IF sq_seq = 0 THEN <<>> ELSE <<Spawned(sq_seq - 1)>>
    /\ sq_pc = "spawn"
    /\ StrIdle /\ FloatIdle /\ ExpoIdle /\ PingIdle /\ SpeedIdle
    /\ DigestIdle /\ HttpIdle

NextSequence ==
    \/ SpawnSequence /\ UNCHANGED <<libVars, pingVars, speedVars, digestVars, httpVars>>
    \/ JoinSequence /\ UNCHANGED <<libVars, pingVars, speedVars, digestVars, httpVars>>

\* The sequence numbers one sample_pings puts on the wire.
SpecSequence == InitSequence /\ [][NextSequence]_vars

InitServe ==
    /\ request \in [path : {"/ping", "/speedtest"}, accept : AcceptHeaders]
    /\ h_pc = "start" /\ response_type = <<>>
    /\ download_data = <<>> /\ upload_data = <<>>
    /\ started = <<>> /\ response = <<>>
    /\ boot_pc = "serving"
    /\ config \in {load_config(raw) : raw \in {r \in RawConfigs :
                       ~PartialCmpPanics(r.speedtest_quantiles)}}
    /\ pp_pc = "idle" /\ resolver_owner = 0 /\ tasks = <<>> /\ pp_results = <<>>
    /\ dg_build \in {"debug", "release"}
    /\ dg_data = DataOf(<<>>, 0) /\ dg_quantiles = <<>>
    /\ dg_pc = "off" /\ dg_summary = <<>>
    /\ StrIdle /\ FloatIdle /\ ExpoIdle /\ SpeedIdle /\ SeqIdle

NextServe ==
    \/ GetPing /\ UNCHANGED <<libVars, pingVars, speedVars, digestVars, seqVars>>
    \/ PerformPingOk /\ UNCHANGED <<libVars, pingVars, speedVars, digestVars, seqVars>>
    \/ PerformPingErr /\ UNCHANGED <<libVars, pingVars, speedVars, digestVars, seqVars>>
    \/ GetSpeedtest /\ UNCHANGED <<libVars, pingVars, speedVars, digestVars, seqVars>>
    \/ MeasureDownloadOk /\ UNCHANGED <<libVars, pingVars, speedVars, digestVars, seqVars>>
    \/ MeasureDownloadErr /\ UNCHANGED <<libVars, pingVars, speedVars, digestVars, seqVars>>
    \/ MeasureUploadOk /\ UNCHANGED <<libVars, pingVars, speedVars, digestVars, seqVars>>
    \/ MeasureUploadErr /\ UNCHANGED <<libVars, pingVars, speedVars, digestVars, seqVars>>
    \/ SpeedtestRespond /\ UNCHANGED <<libVars, pingVars, speedVars, digestVars, seqVars>>
    \/ SpeedtestDigestPanic /\ UNCHANGED <<libVars, pingVars, speedVars, digestVars, seqVars>>

\* One request to /ping or /speedtest of a process that is serving.
SpecServe == InitServe /\ [][NextServe]_vars

----------------------------------------------------------------------------
(* Properties of the exposition builder (SpecExpo).                        *)

\* The text a scrape would return now.
Rendered == ExpositionBuilder_fmt(entries)

\* The places where pat occurs in text.
Occurrences(pat, text) ==
    {i \in 1..(Len(text) - Len(pat) + 1) : SubSeq(text, i, i + Len(pat) - 1) = pat}

\* The start of the HELP line and of the TYPE line of metric n.
HelpLineStart(n) == <<"#", " ", "H", "E", "L", "P", " ">> \o n \o <<" ">>
TypeLineStart(n) == <<"#", " ", "T", "Y", "P", "E", " ">> \o n \o <<" ">>

\* The lines written for metric n, in call order, each as it is rendered.
WrittenLines(n) ==
    LET ForN(e) == e.group = n
        written == SelectSeq(log, ForN)
    IN  Concat([i \in 1..Len(written) |-> n \o written[i].line])

\* The metric names for which some call wrote a line.
WrittenNames == {log[i].group : i \in 1..Len(log)}

\* C1: whatever add_metric calls were made, the rendered text holds the
\* HELP/TYPE header of each metric name at most once, it is the header
\* built by the first add_metric call for that name, and the lines written
\* by all calls for that name follow it in call order.
C1_HeaderOnceLinesInCallOrder ==
    LET text == Rendered
    IN  \A i \in 1..Len(order) :
            LET n == order[i].name
                header == MetricHeader(n, order[i].metric_type, order[i].help_text)
            IN  /\ Cardinality(Occurrences(HelpLineStart(n), text)) <= 1
                /\ Cardinality(Occurrences(TypeLineStart(n), text)) <= 1
                /\ n \in WrittenNames =>
                      Cardinality(Occurrences(header \o WrittenLines(n), text)) = 1

\* Two add_metric calls for one name, with another help text, have both
\* written lines.
C1_Witness ==
    /\ frames = <<>>
    /\ \E i, j \in 1..Len(log) :
          /\ i < j
          /\ log[i].group = log[j].group
          /\ log[i].call # log[j].call
          /\ log[i].data # log[j].data

\* Where the header of a rendered metric starts in the text.
HeaderPosition(text, n) == CHOOSE i \in Occurrences(HelpLineStart(n), text) : TRUE

C3_StacksRestored ==
    /\ []((frames = <<>> /\ ~panicking) =>
            (name = PNameBuilder_new /\ labels = LabelBuilder_new))
    /\ [][/\ (~panicking /\ Len(frames') < Len(frames)) => Stacks' = Top.pre
          /\ Len(log') > Len(log) => Stacks' = Stacks]_vars

\* Every scope has exited normally after a nested closure wrote
\* a line under a pushed label and a pushed name.
C3_Witness ==
    /\ frames = <<>> /\ ~panicking
    /\ \E i \in 1..Len(log) : log[i].labels # <<>> /\ log[i].suffix # <<>>

\* C4 as stated: on every exit from the body of with_label, with_name or
\* add_metric, a panic included, the stacks are as they were at the call.
C4_ExceptionSafe ==
    [][Len(frames') < Len(frames) => Stacks' = Top.pre]_vars

\* C5: a group whose bodies never added a line leaves no trace in the
\* rendered text, neither its HELP nor its TYPE line; a group with a line
\* is rendered with both.
C5_EmptyGroupsSkipped ==
    LET text == Rendered
    IN  \A n \in DOMAIN entries :
            LET helps == Cardinality(Occurrences(HelpLineStart(n), text))
                types == Cardinality(Occurrences(TypeLineStart(n), text))
            IN  IF n \in WrittenNames
                THEN helps = 1 /\ types = 1
                ELSE helps = 0 /\ types = 0

\* One group was created and never written, another was written.
C5_Witness ==
    /\ frames = <<>>
    /\ \E n \in DOMAIN entries : n \notin WrittenNames
    /\ WrittenNames # {}

\* The escaping of label values as the exposition format defines it.
EscapedValue(str) ==
    Concat([i \in 1..Len(str) |->
               CASE str[i] = "\\" -> <<"\\", "\\">>
                 [] str[i] = "\"" -> <<"\\", "\"">>
                 [] str[i] = "\n" -> <<"\\", "n">>
                 [] OTHER        -> <<str[i]>>])

\* The label set of a line under the given labels (outermost first).
RECURSIVE LabelPairs(_)
LabelPairs(ls) ==
    IF ls = <<>> THEN <<>>
    ELSE (IF Len(ls) > 1 THEN LabelPairs(SubSeq(ls, 1, Len(ls) - 1)) \o <<",", " ">>
          ELSE <<>>)
         \o ls[Len(ls)].name \o <<"=", "\"">>
         \o EscapedValue(ls[Len(ls)].value.s) \o <<"\"">>
ExpectedLabelSet(ls) ==
    IF ls = <<>> THEN <<>> ELSE <<"{">> \o LabelPairs(ls) \o <<"}">>

CountChar(text, c) == Cardinality({i \in 1..Len(text) : text[i] = c})

\* C6: the label set of every line written lists exactly the labels on the
\* label stack at that moment, in push order (the extra label of
\* add_line_labeled last), separated by ", " inside one pair of braces, and
\* a line written under no label has no braces.
C6_LabelsInPushOrder ==
    \A i \in 1..Len(log) :
        LET e == log[i]
            start == e.suffix \o ExpectedLabelSet(e.labels) \o <<" ">>
            braces == IF e.labels = <<>> THEN 0 ELSE 1
        IN  /\ Len(e.line) >= Len(start)
            /\ SubSeq(e.line, 1, Len(start)) = start
            /\ CountChar(e.line, "{") = braces
            /\ CountChar(e.line, "}") = braces

\* A line under two labels, then a line under fewer: a label was popped.
C6_Witness ==
    \E i, j \in 1..Len(log) :
        /\ i < j
        /\ Len(log[i].labels) >= 2
        /\ Len(log[j].labels) < Len(log[i].labels)

\* C7 as stated: a line given a timestamp is the label set, a space, the
\* value, a space, the Unix milliseconds and a newline.
C7_TimestampAfterSpace ==
    \A i \in 1..Len(log) :
        LET e == log[i]
        IN  e.at # <<>> =>
               e.line = e.suffix \o ExpectedLabelSet(e.labels) \o <<" ">>
                           \o DecUnsigned(e.data) \o <<" ">>
                           \o DecUnsigned(e.at[1]) \o <<"\n">>

----------------------------------------------------------------------------
(* Properties of the identifier and escaping primitives (SpecStrings).     *)

\* The characters of [a-z_].
NameChars ==
    {"a", "b", "c", "d", "e", "f", "g", "h", "i", "j", "k", "l", "m", "n",
     "o", "p", "q", "r", "s", "t", "u", "v", "w", "x", "y", "z", "_"}

\* s matches [a-z_]+
MatchesNamePattern(s) == Len(s) >= 1 /\ \A i \in 1..Len(s) : s[i] \in NameChars

\* C8 as stated: PName::new(s) returns Ok with the text s exactly when s
\* matches [a-z_]+, and InvalidPrometheusNameError for every other string,
\* the empty string included.
C8_NameIffPattern ==
    pn_result # "none" =>
        IF MatchesNamePattern(pn_input)
        THEN pn_result = "Ok" /\ pn_name = pn_input
        ELSE pn_result = "Err"

\* C8 as amended: PName::new(s) returns Ok with the text s exactly when
\* every character of s is a lowercase ASCII letter or an underscore, which
\* the empty string satisfies, and InvalidPrometheusNameError otherwise.
C8_NameIffAllChars ==
    pn_result # "none" =>
        IF \A i \in 1..Len(pn_input) : pn_input[i] \in NameChars
        THEN pn_result = "Ok" /\ pn_name = pn_input
        ELSE pn_result = "Err"

\* PName::new has accepted the empty string.
C8_Witness == pn_input = <<>> /\ pn_result = "Ok" /\ pn_name = <<>>

\* Un-escaping of a label value as the exposition format defines it:
\* backslash-backslash, backslash-quote and backslash-n are read back as
\* backslash, quote and newline.
RECURSIVE Unescape(_)
Unescape(t) ==
    IF t = <<>> THEN <<>>
    ELSE IF t[1] = "\\" /\ Len(t) >= 2
    THEN <<IF t[2] = "n" THEN "\n" ELSE t[2]>> \o Unescape(SubSeq(t, 3, Len(t)))
    ELSE <<t[1]>> \o Unescape(Tail(t))

\* C9: escaping maps backslash, quote and newline to their two-character
\* forms and every other character to itself, and un-escaping the escaped
\* text gives back the original string; while the iterator runs, what it
\* has written un-escapes to what it has read.
C9_EscapeReversible ==
    /\ esc_done =>
          /\ esc_out = EscapedValue(esc_input)
          /\ Unescape(esc_out) = esc_input
    /\ (~esc_done /\ esc_char = <<>>) =>
          Unescape(esc_out) \o esc_inner = esc_input

\* The iterator has finished a string holding a backslash before an n, and
\* a newline: the two must stay apart in the output.
C9_Witness ==
    /\ esc_done
    /\ esc_input = <<"\\", "n", "\n">>
    /\ esc_out = <<"\\", "\\", "n", "\\", "n">>

----------------------------------------------------------------------------
(* Properties of the Go-float serializer (SpecFloat).                      *)

\* The value of a hexadecimal digit.
HexValue(c) == CHOOSE v \in 0..15 : ALPH[v + 1] = c

\* The integer a decimal text denotes.
RECURSIVE ParseUnsigned(_)
ParseUnsigned(t) ==
    IF t = <<>> THEN 0
    ELSE 10 * ParseUnsigned(SubSeq(t, 1, Len(t) - 1)) + HexValue(t[Len(t)])
ParseSigned(t) ==
    IF t[1] = "-" THEN -ParseUnsigned(Tail(t)) ELSE ParseUnsigned(t)

Zeros(n) == [i \in 1..n |-> 0]
Ones(n) == [i \in 1..n |-> 1]
NatToBits(n, width) == [i \in 1..width |-> (n \div Pow2(width - i)) % 2]
\* The pattern (positions of the 1 bits) of a sequence of bits.
PatternOf(b) == {i \in 1..Len(b) : b[i] = 1}

\* A bit sequence plus one (the carry out of the first bit is dropped).
RECURSIVE Increment(_)
Increment(b) ==
    IF b = <<>> THEN <<>>
    ELSE IF b[Len(b)] = 0 THEN SubSeq(b, 1, Len(b) - 1) \o <<1>>
    ELSE Increment(SubSeq(b, 1, Len(b) - 1)) \o <<0>>

\* The float of the given width nearest (ties to even) to the hexadecimal
\* float text: sign, leading digit and hex fraction, times 2 to the
\* exponent after "p".
HexFloatToBits(kind, text) ==
    LET sign == IF text[1] = "-" THEN 1 ELSE 0
        p_at == CHOOSE i \in 1..Len(text) : text[i] = "p"
        digits == SubSeq(text, 6, p_at - 1)
        p == ParseSigned(SubSeq(text, p_at + 1, Len(text)))
        \* the significand, the binary point after its first bit
        B == <<HexValue(text[4])>>
                \o Concat([i \in 1..Len(digits) |-> NatToBits(HexValue(digits[i]), 4)])
    IN  IF \A i \in 1..Len(B) : B[i] = 0
        THEN <<sign>> \o Zeros(BITS(kind) - 1)
        ELSE
          LET j == CHOOSE i \in 1..Len(B) : B[i] = 1 /\ \A k \in 1..(i - 1) : B[k] = 0
              \* the value is 1.S[2..] * 2^e
              S == SubSeq(B, j, Len(B))
              e == p - (j - 1)
              biased == e + ExpBias(kind)
              field == IF biased >= 1 THEN biased ELSE 0
              F == (IF biased >= 1 THEN Tail(S) ELSE Zeros(-biased) \o S)
                      \o Zeros(FRAC_BITS(kind) + 1)
              kept == SubSeq(F, 1, FRAC_BITS(kind))
              rest == SubSeq(F, FRAC_BITS(kind) + 1, Len(F))
              round_up == /\ rest[1] = 1
                          /\ \/ \E i \in 2..Len(rest) : rest[i] = 1
                             \/ kept[FRAC_BITS(kind)] = 1
              magnitude == NatToBits(field, EXP_BITS(kind)) \o kept
          IN  IF field >= EXP_MASK(kind)
              THEN <<sign>> \o Ones(EXP_BITS(kind)) \o Zeros(FRAC_BITS(kind))
              ELSE <<sign>> \o (IF round_up THEN Increment(magnitude) ELSE magnitude)

\* Reading back what the serializer emits, as a bit pattern.
ReadBack(kind, text) ==
    CASE text = <<"+", "I", "n", "f">> -> FieldOf(EXP_MASK(kind), 2, 1 + EXP_BITS(kind))
      [] text = <<"-", "I", "n", "f">> ->
            {1} \cup FieldOf(EXP_MASK(kind), 2, 1 + EXP_BITS(kind))
      [] text = <<"0">> -> {}
      [] OTHER -> PatternOf(HexFloatToBits(kind, text))

\* C10 as stated: for every float that is not a NaN (normal, subnormal,
\* infinite, zero of either sign), reading the emitted text back as a
\* hexadecimal float gives the bit pattern of the input.
C10_RoundTrip ==
    (fl_pc = "done" /\ ~is_nan(fl_kind, fl_float)) =>
        ReadBack(fl_kind, fl_out) = fl_float

\* The same, of the normal and infinite floats only.
FloatRoundTripNormal ==
    (/\ fl_pc = "done"
     /\ ~is_nan(fl_kind, fl_float)
     /\ RawExponent(fl_kind, fl_float) # 0) =>
        ReadBack(fl_kind, fl_out) = fl_float

\* The reference format of a finite non-zero float: the hex digit at place k
\* of the fraction is read from the four bits of the pattern that follow the
\* exponent field by 4 * (k - 1) positions (the places past the last bit
\* of the pattern hold zeros).
RefNibble(kind, bits, k) ==
    LET first == 1 + EXP_BITS(kind) + 4 * (k - 1) + 1
        Bit(i) == IF i \in bits THEN 1 ELSE 0
    IN  8 * Bit(first) + 4 * Bit(first + 1) + 2 * Bit(first + 2) + Bit(first + 3)

\* The number of hex digits left once the trailing zero digits are removed.
RefDigitCount(kind, bits) ==
    LET places == 1..((FRAC_BITS(kind) + 3) \div 4)
        used == {k \in places : RefNibble(kind, bits, k) # 0}
    IN  IF used = {} THEN 0 ELSE CHOOSE k \in used : \A j \in used : j <= k

RefGoString(kind, bits) ==
    IF RawExponent(kind, bits) = EXP_MASK(kind)
    THEN IF FractionOf(kind, bits) # {} THEN <<"N", "a", "N">>
         ELSE <<(IF 1 \in bits THEN "-" ELSE "+"), "I", "n", "f">>
    ELSE IF bits \ {1} = {} THEN <<"0">>
    ELSE <<(IF 1 \in bits THEN "-" ELSE "+"), "0", "x",
           (IF RawExponent(kind, bits) = 0 THEN "0" ELSE "1"), ".">>
         \o [k \in 1..RefDigitCount(kind, bits) |->
                ALPH[RefNibble(kind, bits, k) + 1]]
         \o <<"p">>
         \o DecSigned(RawExponent(kind, bits) - ExpBias(kind))

\* C11: for every f32/f64 input the text the serializer has written when it
\* returns is the reference format: NaN, +Inf/-Inf, 0, or sign, 0x, leading
\* digit (0 iff the raw exponent is 0), the fraction in hex without its
\* trailing zero digits, p and the raw exponent minus the bias.
C11_ReferenceFormat ==
    fl_pc = "done" => fl_out = RefGoString(fl_kind, fl_float)

\* The serializer has written the smallest f32 subnormal, whose only hex
\* digit is the sixth and holds three fraction bits and a padding zero.
C11_Witness ==
    /\ fl_pc = "done"
    /\ fl_kind = "f32"
    /\ fl_float = {32}
    /\ fl_out = <<"+", "0", "x", "0", ".", "0", "0", "0", "0", "0", "2",
                  "p", "-", "1", "2", "7">>

----------------------------------------------------------------------------
(* Properties of the ping engine (SpecPing).                               *)

\* How often x occurs in a sequence.
CountIn(list, x) == Cardinality({i \in 1..Len(list) : list[i] = x})

\* C12: when perform_ping has returned Ok, whatever the interleaving of the
\* target tasks was, the targets of its results are the configured targets,
\* each as often as it is configured, and every result has exactly one of
\* summary and error.
C12_OneResultPerTarget ==
    pp_pc = "returned" =>
        /\ Len(pp_results) = Len(config.servers)
        /\ \A i \in 1..Len(config.servers) :
              CountIn([k \in 1..Len(pp_results) |-> pp_results[k].target],
                      config.servers[i])
                  = CountIn(config.servers, config.servers[i])
        /\ \A k \in 1..Len(pp_results) :
              (pp_results[k].summary = <<>>) # (pp_results[k].error = <<>>)

\* perform_ping has returned an error result and a summary, the second
\* configured target first.
C12_Witness ==
    /\ pp_pc = "returned"
    /\ config.servers[1] # config.servers[2]
    /\ pp_results[1].target = config.servers[2]
    /\ \E j, k \in 1..Len(pp_results) :
          pp_results[j].error # <<>> /\ pp_results[k].summary # <<>>

\* C13: a target whose resolution failed has a result that carries the
\* error's message and no summary, and no echo request was sent for it;
\* every target that resolved is probed and summarised; a resolution
\* failure never makes perform_ping fail, it returns Ok with all results.
C13_ResolveFailureIsData ==
    /\ \A i \in Targets :
          (tasks[i].resolve # <<>> /\ ~tasks[i].resolve[1].ok) =>
              /\ tasks[i].pc = "finished"
              /\ tasks[i].result =
                    <<[target |-> config.servers[i], summary |-> <<>>,
                       error |-> <<tasks[i].resolve[1].message>>]>>
              /\ tasks[i].sent = <<>> /\ tasks[i].set = {}
    /\ \A i \in Targets :
          (tasks[i].pc = "finished" /\ tasks[i].resolve[1].ok) =>
              /\ tasks[i].result[1].summary # <<>>
              /\ Len(tasks[i].sent) = config.samples
    /\ pp_pc = "failed" => tasks = <<>>
    /\ pp_pc = "panicked" =>
          \E i \in Targets : tasks[i].pc = "panicked" /\ tasks[i].resolve[1].ok
    /\ pp_pc = "returned" =>
          \A i \in Targets :
              \E k \in 1..Len(pp_results) : pp_results[k] = tasks[i].result[1]

\* perform_ping has returned; one target failed to resolve, the other was
\* probed and has a summary with a received sample.
C13_Witness ==
    /\ pp_pc = "returned"
    /\ \E i, j \in Targets :
          /\ ~tasks[i].resolve[1].ok
          /\ tasks[i].resolve[1].message = "no record found"
          /\ tasks[j].resolve[1].ok
          /\ Len(tasks[j].sent) = MaxSamples
          /\ tasks[j].result[1].summary[1].count >= 1

\* The sum of the counts of an errors map.
RECURSIVE SumOfCounts(_)
SumOfCounts(buckets) ==
    IF DOMAIN buckets = {} THEN 0
    ELSE LET k == CHOOSE x \in DOMAIN buckets : TRUE
         IN  buckets[k] + SumOfCounts([x \in DOMAIN buckets \ {k} |-> buckets[x]])

\* The probes of task i that returned an RTT / that returned an error.
Received(i) == {q \in DOMAIN tasks[i].probe : tasks[i].probe[q].ok}
Failed(i) ==
    {q \in DOMAIN tasks[i].probe :
        ~tasks[i].probe[q].ok /\ tasks[i].probe[q].kind # "pending"}

\* C14: in every PingSummary a task has produced from its samples probes,
\* count is the number of probes that returned an RTT, count plus the lost
\* probes is samples, loss is lost / samples and lies in [0, 1], and the
\* counts of the errors map add up to the number of failed probes.
C14_SummaryCounts ==
    \A i \in Targets :
        (tasks[i].pc = "finished" /\ tasks[i].result[1].summary # <<>>) =>
            LET summary == tasks[i].result[1].summary[1]
                lost == config.samples - summary.count
                loss == summary.loss_percent
            IN  /\ summary.count = Cardinality(Received(i))
                /\ lost = Cardinality(Failed(i))
                /\ loss.den > 0 /\ 0 <= loss.num /\ loss.num <= loss.den
                /\ config.samples > 0 => loss.num * config.samples = lost * loss.den
                /\ SumOfCounts(summary.errors) = Cardinality(Failed(i))
                /\ SumOfCounts(summary.errors) <= config.samples

\* A summary of a run in which the first probe failed and a later one
\* returned: the lost sample is removed from the front of the vector.
C14_Witness ==
    \E i \in Targets :
        /\ tasks[i].pc = "finished"
        /\ tasks[i].result[1].summary # <<>>
        /\ config.samples = MaxSamples
        /\ ~tasks[i].probe[0].ok
        /\ tasks[i].result[1].summary[1].count = MaxSamples - 1
        /\ DOMAIN tasks[i].result[1].summary[1].errors = {"timeout"}
        /\ tasks[i].result[1].summary[1].errors["timeout"] = 1

\* C15: whatever the order in which the probes of a target complete, slot s
\* of the sample vector holds the RTT of the probe spawned (and sent) with
\* sequence s once that probe has been collected with a reply, and NaN
\* while it has not been collected or when it failed.
C15_SlotHoldsOwnRtt ==
    \A i \in Targets :
        /\ \A k \in 1..Len(tasks[i].sent) : tasks[i].sent[k] = k - 1
        /\ tasks[i].pc = "join" =>
              /\ Len(tasks[i].results) = config.samples
              /\ \A q \in 0..(config.samples - 1) :
                    tasks[i].results[q + 1] =
                        IF tasks[i].probe[q].ok THEN tasks[i].probe[q].rtt ELSE F_NAN

\* The last probe was collected with a reply while the first is
\* still in flight.
C15_Witness ==
    \E i \in Targets :
        /\ tasks[i].pc = "join"
        /\ 0 \in tasks[i].set
        /\ tasks[i].probe[MaxSamples - 1].ok
        /\ tasks[i].results[MaxSamples] = 9

\* s is sorted ascending.
IsAscending(list) == \A k \in 1..(Len(list) - 1) : list[k] <= list[k + 1]

\* C16 as stated: whenever a task hands config.ping.quantiles to
\* PingSummary::digest_data, the list is sorted ascending, whatever the
\* order in the configuration file.
C16_PingQuantilesSorted ==
    \A i \in Targets :
        (tasks[i].pc = "finished" /\ tasks[i].result[1].summary # <<>>) =>
            IsAscending(config.ping_quantiles)

----------------------------------------------------------------------------
(* Properties of the throughput engine (SpecSpeedtest).                    *)

\* C17 as stated: every sample the download loop or the upload loop has
\* retained has seconds > 0 (so that its bits per second is a number).
C17_SampleSecondsPositive ==
    \A k \in 1..Len(locals.samples) : locals.samples[k].seconds > 0

\* The bytes of the samples of a ThroughputData, added up.
SampleBytes(samples) == SumSeq([k \in 1..Len(samples) |-> samples[k].bytes])

\* C18 as stated: in the data a download or an upload measurement returns,
\* total.bytes is the sum of the bytes of the recorded samples.
C18_TotalBytesIsSampleSum ==
    sp_data # <<>> => sp_data[1].total.bytes = SampleBytes(sp_data[1].samples)

\* C19 as stated: the download loop stops at the deadline; no GET is issued
\* after end = start + download_duration has passed, whatever the server does.
C19_NoGetAfterDeadline ==
    sp_kind = "download" =>
        \A k \in 1..Len(gets) : gets[k] <= locals.end_time

\* C20: the upload loop has one sample per POST that timeout_at let
\* complete with a success, in order, with bytes = upload_chunk_size and
\* seconds = the time since the previous recording (the start for the
\* first); a POST that failed or was cut off by the deadline adds no sample
\* and no bytes, so total.bytes = number of samples * upload_chunk_size,
\* also in the data returned.
C20_OneSamplePerCompletedPost ==
    sp_kind = "upload" =>
        LET samples == locals.samples
        IN  /\ Len(samples) <= Len(posts)
            /\ \A k \in 1..Len(posts) : (posts[k].ended = "Ok") = (k <= Len(samples))
            /\ \A k \in 1..Len(samples) :
                  /\ samples[k].bytes = provider.upload_chunk_size
                  /\ samples[k].seconds =
                        posts[k].at - (IF k = 1 THEN locals.start_time ELSE posts[k - 1].at)
            /\ locals.total_bytes = Len(samples) * provider.upload_chunk_size
            /\ sp_data # <<>> =>
                  /\ sp_data[1].samples = samples
                  /\ sp_data[1].total.bytes = Len(samples) * provider.upload_chunk_size

\* An upload has returned after two completed POSTs of four bytes and a
\* third that the deadline cut off.
C20_Witness ==
    /\ sp_kind = "upload" /\ sp_data # <<>>
    /\ provider.upload_chunk_size = 4
    /\ Len(posts) = 3 /\ posts[3].ended = "Elapsed"
    /\ Len(sp_data[1].samples) = 2
    /\ sp_data[1].total.bytes = 8

----------------------------------------------------------------------------
(* Properties of the throughput digestion (SpecDigest).                    *)

\* Twice the weighted midpoint of the k-th sample of an order: the seconds
\* of the samples before it, and half its own.
TwiceMidpoint(sorted, k) ==
    2 * SumSeq([j \in 1..(k - 1) |-> sorted[j].seconds]) + sorted[k].seconds

\* The samples of an order whose midpoint, divided by total.seconds, is >= q.
ReachingSamples(sorted, total, q) ==
    {k \in 1..Len(sorted) : TwiceMidpoint(sorted, k) * 100 >= 2 * q * total.seconds}

\* What q is paired with: the bps of the first sample that reaches it, the
\* last sample's bps when none does and q >= 1, nothing otherwise.
ExpectedPair(sorted, total, q) ==
    LET reaching == ReachingSamples(sorted, total, q)
        first == CHOOSE k \in reaching : \A j \in reaching : k <= j
    IN  IF reaching # {} THEN << <<q, bps(sorted[first])>> >>
        ELSE IF q >= 100 THEN << <<q, bps(sorted[Len(sorted)])>> >>
        ELSE <<>>

ExpectedQuantiles(sorted, total, quantiles) ==
    Concat([k \in 1..Len(quantiles) |-> ExpectedPair(sorted, total, quantiles[k])])

\* C21: for non-empty samples, total.seconds > 0 and an ascending quantile
\* list, the summary digest_data returns pairs each quantile it emits with
\* the bps of the first sample, in an ascending-bps order, whose weighted
\* midpoint divided by total.seconds is >= q, and a remaining quantile >= 1
\* with the last sample's bps.
C21_WeightedQuantilePairs ==
    (dg_pc = "done" /\ dg_data.samples # <<>> /\ dg_data.total.seconds > 0) =>
        \E sorted \in SortedOrders(dg_data.samples) :
            dg_summary[1].quantiles =
                ExpectedQuantiles(sorted, dg_data.total, dg_quantiles)

\* The digestion of 1000 B in 1 s and 4000 B in 1 s for the quantiles
\* 0.25, 0.75 and 1 has returned (0.25, 8000), (0.75, 32000), (1, 32000).
C21_Witness ==
    /\ dg_pc = "done"
    /\ dg_data = [samples |-> <<Sample(1000, 1000), Sample(4000, 1000)>>,
                  total |-> Sample(5000, 2000)]
    /\ dg_quantiles = <<25, 75, 100>>
    /\ dg_summary[1].quantiles = << <<25, 8000>>, <<75, 32000>>, <<100, 32000>> >>

\* C22 as stated: digest_data called with total.seconds = 0 or with no
\* sample returns, without failing, a summary with empty quantiles,
\* mean = 0 and stddev = 0.
C22_ZeroSummary ==
    (dg_pc # "call" /\ (dg_data.total.seconds = 0 \/ dg_data.samples = <<>>)) =>
        /\ dg_pc = "done"
        /\ dg_summary[1].quantiles = <<>>
        /\ dg_summary[1].mean = 0
        /\ dg_summary[1].stddev = "zero"

\* The quantiles of a quantile map, in order.
QuantilesOf(map) == [k \in 1..Len(map) |-> map[k][1]]

\* C28 as stated: when samples are non-empty and total.seconds > 0, the
\* quantile list of the summary holds every configured quantile once, in
\* the configured order.
C28_EveryQuantileOnce ==
    (dg_pc = "done" /\ dg_data.samples # <<>> /\ dg_data.total.seconds > 0) =>
        QuantilesOf(dg_summary[1].quantiles) = dg_quantiles

----------------------------------------------------------------------------
(* Properties of the request handlers (SpecServe).                         *)

\* The positions of the log at which `what` has the given outcome.
EventsOf(what, outcome) ==
    {k \in 1..Len(started) : started[k].what = what /\ started[k].outcome = outcome}

\* C23: on /speedtest, once a measurement has failed the response is the
\* 500 with the error's message as text/plain body (no metric of either
\* direction); measure_upload is called only after measure_download has
\* returned Ok, and never after it has failed.
C23_FailureIs500AndSerialized ==
    request.path = "/speedtest" =>
        /\ \A k \in 1..Len(started) :
              started[k].outcome = "Err" =>
                  /\ k = Len(started)
                  /\ response = <<[status |-> 500,
                                   content_type |-> "text/plain; charset=utf-8",
                                   body |-> <<started[k].message>>]>>
        /\ \A k \in EventsOf("measure_upload", "called") :
              /\ \E j \in EventsOf("measure_download", "Ok") : j < k
              /\ EventsOf("measure_download", "Err") = {}
        /\ EventsOf("measure_download", "Err") # {} =>
              EventsOf("measure_upload", "called") = {}

\* The upload has failed after a download that succeeded, and the 500 with
\* the upload's error has been returned.
C23_Witness ==
    /\ request.path = "/speedtest"
    /\ EventsOf("measure_download", "Ok") # {}
    /\ EventsOf("measure_upload", "Err") # {}
    /\ response # <<>> /\ response[1].status = 500
    /\ response[1].body = <<"HTTP status client error (404 Not Found)">>

\* What the Accept header of the request asks for is text/plain or
\* application/json (a wildcard asks for both).
AcceptMatches(accept) ==
    \/ accept.wildcard
    \/ \E k \in 1..Len(accept.types) :
          accept.types[k] \in {"text/plain", "application/json"}

\* The 406 with an empty body, returned before anything was measured.
NotAcceptable ==
    /\ response = <<[status |-> 406, content_type |-> "", body |-> <<>>]>>
    /\ started = <<>>

\* C24 as stated: a request to /ping or /speedtest whose Accept matches
\* neither text/plain nor application/json is answered 406 with an empty
\* body, without any measurement being started.
C24_NoMatchIs406 ==
    (request.accept.present /\ ~AcceptMatches(request.accept)) =>
        /\ started = <<>>
        /\ h_pc # "start" => NotAcceptable

\* C24 as amended: the Accept header is validated before any measurement;
\* a request whose Accept header is readable and matches neither
\* text/plain nor application/json is answered 406 with an empty body and
\* nothing is measured, and no other request is answered 406.
C24_ReadableNoMatchIs406 ==
    LET refused == /\ request.accept.present /\ request.accept.readable
                   /\ ~AcceptMatches(request.accept)
    IN  /\ refused => started = <<>> /\ (h_pc # "start" => NotAcceptable)
        /\ started # <<>> => response_type # <<>> /\ ~refused
        /\ (response # <<>> /\ response[1].status = 406) => refused

\* A request to /speedtest that accepts only application/xml has been
\* answered 406.
C24_Witness ==
    /\ request.path = "/speedtest"
    /\ request.accept = Accept(TRUE, TRUE, <<"application/xml">>, FALSE)
    /\ h_pc = "responded"
    /\ NotAcceptable

----------------------------------------------------------------------------
(* Properties of the resolver lock and of termination (SpecPing,           *)
(* FairSpecPing).                                                          *)

\* The target tasks that are resolving, and those with probes in flight.
Resolving == {i \in Targets : tasks[i].pc = "resolving"}
Probing == {i \in Targets : tasks[i].sent # <<>> /\ tasks[i].set # {}}

\* C25: at most one target task is resolving at any time; a task holds the
\* resolver lock exactly while it resolves, so it has released the lock
\* before its first probe and when its resolution has failed, and no task
\* holds the lock while it probes.
C25_LockHeldOnlyWhileResolving ==
    /\ Cardinality(Resolving) <= 1
    /\ \A i \in Targets :
          /\ (resolver_owner = i) = (tasks[i].pc = "resolving")
          /\ tasks[i].sent # <<>> => resolver_owner # i
          /\ (tasks[i].resolve # <<>> /\ ~tasks[i].resolve[1].ok) => resolver_owner # i
    /\ resolver_owner \in {0} \cup Targets

\* The probing phases of two targets overlap: both have probes in flight,
\* and the lock is free.
C25_Witness ==
    /\ Cardinality(Probing) = 2
    /\ resolver_owner = 0

\* C30 as stated: under fair scheduling, with every lookup and every echo
\* request returning, perform_ping, once it waits for its target tasks,
\* eventually returns with the result of every target.
C30_PerformPingReturns ==
    (pp_pc = "joining") ~> (pp_pc = "returned" /\ Len(pp_results) = Len(tasks))

----------------------------------------------------------------------------
(* Properties of the measurement deadlines and spans (SpecSpeedtest).      *)

\* C26 as stated: the deadline of an upload is its start plus
\* upload_duration, and that of a download its start plus
\* download_duration.
C26_DeadlineOfOwnDuration ==
    /\ sp_kind = "upload" =>
          locals.end_time = locals.start_time + provider.upload_duration
    /\ sp_kind = "download" =>
          locals.end_time = locals.start_time + provider.download_duration

\* The seconds of a list of samples, added up.
SampleSeconds(samples) == SumSeq([k \in 1..Len(samples) |-> samples[k].seconds])

\* C29: in every state of the download loop and of the upload loop the
\* seconds of the recorded samples add up to last_chunk_time - start_time,
\* every sample ending where the next begins, and the total.seconds
\* returned is the sum of the seconds of the samples returned.
C29_SamplesCoverSpan ==
    sp_kind \in {"download", "upload"} =>
        /\ SampleSeconds(locals.samples) = locals.last_chunk_time - locals.start_time
        /\ \A k \in 1..Len(locals.samples) :
              LET end_of_k == locals.start_time
                                + SampleSeconds(SubSeq(locals.samples, 1, k))
              IN  /\ end_of_k - locals.samples[k].seconds >= locals.start_time
                  /\ end_of_k <= locals.last_chunk_time
        /\ sp_data # <<>> =>
              sp_data[1].total.seconds = SampleSeconds(sp_data[1].samples)

\* A download has returned two samples, the second longer than
\* MIN_SAMPLE_TIME, whose seconds add up to the total's.
C29_Witness ==
    /\ sp_kind = "download" /\ sp_data # <<>>
    /\ Len(sp_data[1].samples) = 2
    /\ sp_data[1].samples[2].seconds > MIN_SAMPLE_TIME
    /\ sp_data[1].total.seconds
          = sp_data[1].samples[1].seconds + sp_data[1].samples[2].seconds

----------------------------------------------------------------------------
(* Properties of the probes' sequence numbers (SpecSequence).              *)

\* C27 as stated: for every sample count, the echo request spawned for the
\* index s carries the sequence number s, so that no later probe carries
\* the sequence number of the first.
C27_SequenceIsIndex ==
    sq_spawned # <<>> =>
        /\ sq_spawned[1].wire = sq_spawned[1].index
        /\ sq_spawned[1].index > 0 => sq_spawned[1].wire # Spawned(0).wire

=============================================================================
